---- MODULE Spec2Model ----
(***************************************************************************)
(* A model of reactive-tree (src/src/index.ts, the current version that    *)
(* starts at line 562): leaves, twigs, branches, the tracking stack        *)
(* `connectors`, dependency-list reconciliation and the async scheduler.   *)
(*                                                                         *)
(* The program is single-threaded.  A library call that runs no user       *)
(* handler is one action.  A branch handler is user code: it is on the     *)
(* stack between the action that invokes it and the action in which it     *)
(* returns or throws, and each library call it makes in between is an      *)
(* action taken while its frame is the top of the stack.  Twig handlers    *)
(* are the fixed pure functions of TwigProgram (or of CyclicProgram, in    *)
(* SpecCycle); a twig evaluation pushes and pops its own connector inside  *)
(* one action.                                                             *)
(***************************************************************************)
EXTENDS Integers, Sequences, FiniteSets, TLC

\* ------------------------------------------------------------------ bounds

\* Branch identities that can be handed out in one behaviour.
MaxBranches == 3
\* Leaves hold values 0..MaxValue.
MaxValue == 1
\* Library calls made from outside handlers plus calls made by branch handlers.
MaxOps == 5
\* The same for SpecSched and for SpecTwig.
MaxSchedOps == 7
MaxTwigOps == 8
\* The same for SpecLive, whose behaviours are checked to their end.
MaxLiveOps == 4
\* The same for SpecOwn.
MaxOwnOps == 6
\* The same for SpecFreeze.
MaxFreezeOps == 6
\* observe() calls on one leaf, and calls and source events in SpecObserve.
MaxSources == 3
MaxObserveOps == 6
\* The same for SpecNotify.
MaxNotifyOps == 6
\* The same for SpecSignal.
MaxSignalOps == 7
\* The same for SpecThrow.
MaxThrowOps == 6
\* The same for SpecDrain, whose behaviours are checked to their end.
MaxDrainOps == 4
\* The same for SpecRerun.
MaxRerunOps == 6
\* The same for SpecCycle.
MaxCycleOps == 5
\* The same for SpecPartial.
MaxPartialOps == 6
\* The same for SpecStack.
MaxStackOps == 5
\* Signals that SpecIdentity creates.
MaxSignals == 5
\* Library calls in SpecSync.
MaxSyncOps == 6
\* Library calls in SpecStopped.
MaxStoppedOps == 6

\* ---------------------------------------------------------------- universe

\* createLeaf() twice, then createTwig() twice: generateSignalID hands out 1..4.
Leaves == {1, 2}
Twigs == {3, 4}
Signals == Leaves \cup Twigs
\* createSignal(source) once more: identity 5.  The source is a Subject, so a
\* subscriber that comes after its end is told of the end at once.
Sources == {5}
BranchIDs == 1..MaxBranches
Values == 0..MaxValue

\* undefined, for a branch reference or a number
None == 0
\* DistinctUntilChangedSubscriber.hasKey === false
NoKey == -1
\* a twig's _value before its handler has returned once
Undefined == -2
\* the value a handler substitutes when it catches a nested twig's exception
Caught == 7

VARIABLES
    leaves,        \* Leaf: value, _subject
    twigs,         \* Twig: dirty, _value, _signals, _running, _subscription
    branches,      \* Branch: the flags, _signals, _parent, _branches, ...
    sched,         \* AsyncScheduler (Scheduler.default)
    connectors,    \* the tracking stack; one frame per executing branch handler
    nextBranchID,  \* generateBranchID's counter
    nextSignalID,  \* generateSignalID's counter
    sources,       \* createSignal's sources: "live", "completed" or "errored"
    handlers,      \* the handlers given to createTwig: "chain" or "cycle"
    ops,           \* library calls the behaviour may still make (the bound of the model)
    hist           \* observations of the run: what handlers did and when

vars == <<leaves, twigs, branches, sched, connectors, nextBranchID, nextSignalID,
          sources, handlers, ops, hist>>

\* The whole program state as one value, so that code can be composed
\* statement by statement.
State ==
    [leaves |-> leaves, twigs |-> twigs, branches |-> branches, sched |-> sched,
     connectors |-> connectors, nextBranchID |-> nextBranchID, sources |-> sources,
     handlers |-> handlers, nextSignalID |-> nextSignalID, hist |-> hist]

Commit(S) ==
    /\ leaves' = S.leaves
    /\ twigs' = S.twigs
    /\ branches' = S.branches
    /\ sched' = S.sched
    /\ connectors' = S.connectors
    /\ nextBranchID' = S.nextBranchID
    /\ sources' = S.sources
    /\ handlers' = S.handlers
    /\ nextSignalID' = S.nextSignalID
    /\ hist' = S.hist

\* ---------------------------------------------------------------- sequences

\* The element of a one-element set.  Only({f(x) : x \in {e}}) is f(e) with e
\* computed once: a local `const x = e`.
Only(set) == CHOOSE x \in set : TRUE

InsertAt(s, i, x) == SubSeq(s, 1, i - 1) \o <<x>> \o SubSeq(s, i, Len(s))

RemoveAt(s, i) == SubSeq(s, 1, i - 1) \o SubSeq(s, i + 1, Len(s))

Range(s) == {s[i] : i \in 1..Len(s)}

RECURSIVE IndexOfFrom(_, _, _)
IndexOfFrom(s, x, i) ==
    IF i > Len(s) THEN 0 ELSE IF s[i] = x THEN i ELSE IndexOfFrom(s, x, i + 1)

\* Array.prototype.indexOf, 1-based; 0 when absent
IndexOf(s, x) == IndexOfFrom(s, x, 1)

\* binarySearch's loop on the array of pred(array[i]); lo and hi are the
\* code's 0-based indices.
RECURSIVE BinarySearchLoop(_, _, _)
BinarySearchLoop(p, lo, hi) ==
    IF 1 + lo = hi THEN hi
    ELSE LET mi == lo + ((hi - lo) \div 2)
         IN IF p[mi + 1] THEN BinarySearchLoop(p, lo, mi)
            ELSE BinarySearchLoop(p, mi, hi)

\* binarySearch(array, x => pred(x)) as a 1-based position (the code's hi + 1)
BinarySearch(p) == BinarySearchLoop(p, -1, Len(p)) + 1

\* ------------------------------------------------------------ dependencies

\* An addSignal that pushes the signal at the end without searching.
AddSignalAtEnd(signals, signal) ==
    Append(signals, [sig |-> signal, discarded |-> FALSE])

\* addSignal: signals is an array of SignalItem = [sig, discarded]
AddSignal(signals, signal) ==
    LET index == BinarySearch([i \in 1..Len(signals) |-> signals[i].sig >= signal])
    IN IF index <= Len(signals) /\ signals[index].sig = signal
       THEN [signals EXCEPT ![index].discarded = FALSE]
       ELSE InsertAt(signals, index, [sig |-> signal, discarded |-> FALSE])

\* signals.forEach(setDiscarded)
RECURSIVE SetDiscarded(_)
SetDiscarded(signals) ==
    IF signals = <<>> THEN <<>>
    ELSE <<[Head(signals) EXCEPT !.discarded = TRUE]>> \o SetDiscarded(Tail(signals))

RECURSIVE KeepSignals(_, _)
KeepSignals(signals, i) ==
    IF i > Len(signals) THEN <<>>
    ELSE IF signals[i].discarded THEN KeepSignals(signals, i + 1)
         ELSE <<signals[i]>> \o KeepSignals(signals, i + 1)

\* A reconciliation that drops nothing.
KeepAllSignals(signals) == signals

\* removeDiscardedSignals: the array afterwards (the result is k < length)
RemoveDiscardedSignals(signals) == KeepSignals(signals, 1)

SignalSet(signals) == {signals[i].sig : i \in 1..Len(signals)}

\* obs.subscribe(...) on merge(...signals.map(x => x.observable)): one inner
\* subscription per signal, each leaf's with a DistinctUntilChangedSubscriber
\* that has seen no value yet.
NoSubscription == [s \in {} |-> NoKey]

NewSubscription(signals) == [s \in SignalSet(signals) |-> NoKey]

\* Leaf.observable / Leaf.subject: subscribing to a leaf creates its Subject
OpenSubjects(lv, signals) ==
    [l \in Leaves |-> IF l \in SignalSet(signals)
                      THEN [lv[l] EXCEPT !.hasSubject = TRUE] ELSE lv[l]]

\* --------------------------------------------------------------- scheduler

\* The array of pred(branch) for compare = branch => branch.identity <= branchID
CompareLE(array, branchID) == [i \in 1..Len(array) |-> array[i] <= branchID]

\* AsyncScheduler.schedule(branch) with the identity test of the re-entrant
\* insert left out: every branch scheduled during a flush joins that flush.
AsyncScheduleAnyInFlight(S, b) ==
    IF S.branches[b].scheduledBy THEN S
    ELSE
        LET S1 == [S EXCEPT !.branches[b].scheduledBy = TRUE]
            runningBranch == S1.sched.runningBranch
        IN IF runningBranch # None
           THEN LET runningBranches == S1.sched.runningBranches
                    index == BinarySearch(CompareLE(runningBranches, b))
                IN IF index <= Len(runningBranches) /\ runningBranches[index] = b
                   THEN S1
                   ELSE [S1 EXCEPT !.sched.runningBranches =
                                       InsertAt(runningBranches, index, b)]
           ELSE LET scheduledBranches == S1.sched.scheduledBranches
                    index == BinarySearch(CompareLE(scheduledBranches, b))
                IN IF index <= Len(scheduledBranches) /\ scheduledBranches[index] = b
                   THEN S1
                   ELSE LET S2 == [S1 EXCEPT !.sched.scheduledBranches =
                                                 InsertAt(scheduledBranches, index, b)]
                        IN IF S2.sched.scheduled THEN S2
                           ELSE [S2 EXCEPT !.sched.scheduled = TRUE,
                                           !.sched.callbacks = @ + 1]

\* AsyncScheduler.schedule(branch) without its two tests for a branch that is
\* queued already.
AsyncScheduleAgain(S, b) ==
    LET S1 == [S EXCEPT !.branches[b].scheduledBy = TRUE]
        runningBranch == S1.sched.runningBranch
    IN IF runningBranch # None /\ b > runningBranch
       THEN LET runningBranches == S1.sched.runningBranches
                index == BinarySearch(CompareLE(runningBranches, b))
            IN [S1 EXCEPT !.sched.runningBranches = InsertAt(runningBranches, index, b)]
       ELSE LET scheduledBranches == S1.sched.scheduledBranches
                index == BinarySearch(CompareLE(scheduledBranches, b))
                S2 == [S1 EXCEPT !.sched.scheduledBranches =
                                     InsertAt(scheduledBranches, index, b)]
            IN IF S2.sched.scheduled THEN S2
               ELSE [S2 EXCEPT !.sched.scheduled = TRUE, !.sched.callbacks = @ + 1]

\* AsyncScheduler.schedule(branch) without the _scheduled flag's test: every
\* insertion into pending asks the primitive for a flush.
AsyncScheduleAsksEach(S, b) ==
    IF S.branches[b].scheduledBy THEN S
    ELSE
        LET S1 == [S EXCEPT !.branches[b].scheduledBy = TRUE]
            runningBranch == S1.sched.runningBranch
        IN IF runningBranch # None /\ b > runningBranch
           THEN LET runningBranches == S1.sched.runningBranches
                    index == BinarySearch(CompareLE(runningBranches, b))
                IN IF index <= Len(runningBranches) /\ runningBranches[index] = b
                   THEN S1
                   ELSE [S1 EXCEPT !.sched.runningBranches =
                                       InsertAt(runningBranches, index, b)]
           ELSE LET scheduledBranches == S1.sched.scheduledBranches
                    index == BinarySearch(CompareLE(scheduledBranches, b))
                IN IF index <= Len(scheduledBranches) /\ scheduledBranches[index] = b
                   THEN S1
                   ELSE LET S2 == [S1 EXCEPT !.sched.scheduledBranches =
                                                 InsertAt(scheduledBranches, index, b)]
                        IN [S2 EXCEPT !.sched.scheduled = TRUE,
                                      !.sched.callbacks = @ + 1]

\* AsyncScheduler.schedule(branch)
AsyncSchedule(S, b) ==
    IF S.branches[b].scheduledBy THEN S
    ELSE
        LET S1 == [S EXCEPT !.branches[b].scheduledBy = TRUE]
            runningBranch == S1.sched.runningBranch
        IN IF runningBranch # None /\ b > runningBranch
           THEN LET runningBranches == S1.sched.runningBranches
                    index == BinarySearch(CompareLE(runningBranches, b))
                IN IF index <= Len(runningBranches) /\ runningBranches[index] = b
                   THEN S1
                   ELSE [S1 EXCEPT !.sched.runningBranches =
                                       InsertAt(runningBranches, index, b)]
           ELSE LET scheduledBranches == S1.sched.scheduledBranches
                    index == BinarySearch(CompareLE(scheduledBranches, b))
                IN IF index <= Len(scheduledBranches) /\ scheduledBranches[index] = b
                   THEN S1
                   ELSE LET S2 == [S1 EXCEPT !.sched.scheduledBranches =
                                                 InsertAt(scheduledBranches, index, b)]
                        IN IF S2.sched.scheduled THEN S2
                           ELSE [S2 EXCEPT !.sched.scheduled = TRUE,
                                           !.sched.callbacks = @ + 1]

\* An unschedule(branch) that looks in _scheduledBranches only.
AsyncUnschedulePendingOnly(S, b) ==
    IF ~S.branches[b].scheduledBy THEN S
    ELSE
        LET S1 == [S EXCEPT !.branches[b].scheduledBy = FALSE]
            scheduledBranches == S1.sched.scheduledBranches
            index == BinarySearch(CompareLE(scheduledBranches, b))
        IN IF index <= Len(scheduledBranches) /\ scheduledBranches[index] = b
           THEN [S1 EXCEPT !.sched.scheduledBranches =
                               RemoveAt(scheduledBranches, index)]
           ELSE S1

\* AsyncScheduler.unschedule(branch)
AsyncUnschedule(S, b) ==
    IF ~S.branches[b].scheduledBy THEN S
    ELSE
        LET S1 == [S EXCEPT !.branches[b].scheduledBy = FALSE]
            scheduledBranches == S1.sched.scheduledBranches
            index == BinarySearch(CompareLE(scheduledBranches, b))
            S2 == IF index <= Len(scheduledBranches) /\ scheduledBranches[index] = b
                  THEN [S1 EXCEPT !.sched.scheduledBranches =
                                      RemoveAt(scheduledBranches, index)]
                  ELSE S1
            runningBranches == S2.sched.runningBranches
            index2 == BinarySearch(CompareLE(runningBranches, b))
        IN IF S2.sched.draining
              /\ index2 <= Len(runningBranches) /\ runningBranches[index2] = b
           THEN [S2 EXCEPT !.sched.runningBranches = RemoveAt(runningBranches, index2)]
           ELSE S2

RECURSIVE RunBranchBegin(_, _, _)

\* SyncScheduler.schedule(branch): tryCatch(runBranch)(branch), up to the call
\* of the handler.  (SyncScheduler.unschedule does nothing.)
SyncSchedule(S, b) == RunBranchBegin(S, b, "sync")

\* scheduleBranch / unscheduleBranch: (branch.scheduler || Scheduler.default).
\* hist.asked[b] counts (up to 2) the calls since b was last outside the queues.
ScheduleBranch(S, b) ==
    IF S.branches[b].sync THEN SyncSchedule(S, b)
    ELSE AsyncSchedule([S EXCEPT !.hist.asked[b] =
                            IF ~S.branches[b].scheduledBy THEN 1 ELSE 2], b)

UnscheduleBranch(S, b) == IF S.branches[b].sync THEN S ELSE AsyncUnschedule(S, b)

RECURSIVE ScheduleAll(_, _)
ScheduleAll(S, bs) ==
    IF bs = <<>> THEN S ELSE ScheduleAll(ScheduleBranch(S, Head(bs)), Tail(bs))

\* ------------------------------------------------------------ notification

\* a set of integers as an ascending sequence
RECURSIVE Ascending(_)
Ascending(set) ==
    IF set = {} THEN <<>>
    ELSE LET m == CHOOSE x \in set : \A y \in set : x <= y
         IN <<m>> \o Ascending(set \ {m})

\* The twigs whose Subject emits when the twigs of `from` emit: a twig's merged
\* subscription is multicast into its own Subject (runTwig), so every twig
\* subscribed to an emitting twig emits too.
RECURSIVE Emitting(_, _)
Emitting(S, from) ==
    LET more == {t \in Twigs : \E u \in from : u \in DOMAIN S.twigs[t].sub}
    IN IF more \subseteq from THEN from ELSE Emitting(S, from \cup more)

RECURSIVE Concat(_)
Concat(ss) == IF ss = <<>> THEN <<>> ELSE Head(ss) \o Concat(Tail(ss))

\* The subscribers of the emitting twigs run: `next` of runTwig sets dirty on
\* every twig that holds a subscription, `next` of runBranch schedules the
\* branch, once for every emitting signal the branch is subscribed to.
NotifyFrom(S, emitting, first) ==
    LET S1 == [S EXCEPT !.twigs =
                   [t \in Twigs |->
                       IF t \in emitting /\ DOMAIN S.twigs[t].sub # {}
                       THEN [S.twigs[t] EXCEPT !.dirty = TRUE] ELSE S.twigs[t]]]
        order == Ascending(emitting)
        calls == Concat([i \in 1..Len(order) |->
                     Ascending({b \in BranchIDs : order[i] \in DOMAIN S.branches[b].sub})])
    IN ScheduleAll(S1, first \o calls)

\* Twig.notify(): subject.next(this) on the twig's own Subject, which the
\* twig's dependents observe and, through multicast and refCount, the twig's
\* own subscriber does too.  A twig without a Subject has no observer.
TwigNotify(S, t) == NotifyFrom(S, Emitting(S, {t}), <<>>)

\* A filter that lets nothing through before it has seen a first value.
DistinctPassesAfterFirst(key, value) == key # NoKey /\ key # value

\* Does the leaf's observable (subject.pipe(distinctUntilChanged(), mapTo(leaf)))
\* emit to a subscriber whose DistinctUntilChangedSubscriber holds `key`?
DistinctPasses(key, value) == key = NoKey \/ key # value

\* subject.next(value) on a leaf's Subject: the first observer stores the
\* value; then every subscription that contains the leaf filters it.
SubjectNext(S, l, value) ==
    LET passT == {t \in Twigs : l \in DOMAIN S.twigs[t].sub
                                /\ DistinctPasses(S.twigs[t].sub[l], value)}
        passB == {b \in BranchIDs : l \in DOMAIN S.branches[b].sub
                                    /\ DistinctPasses(S.branches[b].sub[l], value)}
        S1 == [S EXCEPT
                 !.leaves[l].value = value,
                 !.twigs = [t \in Twigs |->
                     IF l \in DOMAIN S.twigs[t].sub
                     THEN [S.twigs[t] EXCEPT !.sub[l] = value] ELSE S.twigs[t]],
                 !.branches = [b \in BranchIDs |->
                     IF l \in DOMAIN S.branches[b].sub
                     THEN [S.branches[b] EXCEPT !.sub[l] = value] ELSE S.branches[b]]]
    IN NotifyFrom(S1, Emitting(S1, passT), Ascending(passB))

\* The subscriptions that observe() made on a leaf are numbered in the order
\* of the calls (leaves[l].attached counts them); leaves[l].open holds those
\* not closed; _subscription is one of them or None; _subscriptionMany is
\* undefined (hasMany is FALSE) or the composite of the members of `many`.

\* An unobserve() that forgets the composite.
UnobserveSingleOnly(S, l) ==
    [S EXCEPT !.leaves[l].subscription = None,
              !.leaves[l].open = @ \ {S.leaves[l].subscription}]

\* Leaf.unobserve(): the composite, if there is one, takes the place of
\* _subscription, and unsubscribeObject closes what _subscription holds.
Unobserve(S, l) ==
    [S EXCEPT !.leaves[l].subscription = None,
              !.leaves[l].hasMany = FALSE,
              !.leaves[l].many = {},
              !.leaves[l].open = @ \ (IF S.leaves[l].hasMany THEN S.leaves[l].many
                                      ELSE {S.leaves[l].subscription})]

\* subject ? subject.next(value) : (this.value = value), in write() and in
\* the subscriber of observe()
LeafNext(S, l, value) ==
    IF S.leaves[l].hasSubject THEN SubjectNext(S, l, value)
    ELSE [S EXCEPT !.leaves[l].value = value]

\* Leaf.write(value)
LeafWrite(S, l, value) == LeafNext(Unobserve(S, l), l, value)

\* An observe() that always stores the new subscription in _subscription.
LeafObserveReplaces(S, l, now, done) ==
    Only({[S1 EXCEPT !.leaves[l].attached = @ + 1,
                     !.leaves[l].open = IF done THEN @
                                        ELSE @ \cup {S.leaves[l].attached + 1},
                     !.leaves[l].subscription = S.leaves[l].attached + 1] :
             S1 \in {IF now = NoKey THEN S ELSE LeafNext(S, l, now)}})

\* Leaf.observe(source).  from(source).subscribe(...) may deliver a value
\* at once (`now`, or NoKey) and may have completed when it returns (`done`:
\* the subscription is closed).  Subscription.add leaves out a subscription
\* that is closed.
LeafObserve(S, l, now, done) ==
    LET subscription == S.leaves[l].attached + 1
        single == S.leaves[l].subscription
        added == IF done THEN {} ELSE {subscription}
    IN Only({IF single = None
             THEN [S2 EXCEPT !.leaves[l].subscription = subscription]
             ELSE IF ~S2.leaves[l].hasMany
             THEN IF single \notin S2.leaves[l].open
                  THEN [S2 EXCEPT !.leaves[l].subscription = subscription]
                  ELSE [S2 EXCEPT !.leaves[l].hasMany = TRUE,
                                  !.leaves[l].many = {single} \cup added]
             ELSE [S2 EXCEPT !.leaves[l].many = @ \cup added] :
             S2 \in {[S1 EXCEPT !.leaves[l].attached = subscription,
                                !.leaves[l].open = @ \cup added] :
                         S1 \in {IF now = NoKey THEN S ELSE LeafNext(S, l, now)}}})

\* The source of subscription s emits: a subscriber that is closed drops the
\* value, an open one calls the function observe() gave it.
SourceNext(S, l, s, value) ==
    IF s \in S.leaves[l].open THEN LeafNext(S, l, value) ELSE S

\* The source of subscription s completes: the subscription closes.
SourceComplete(S, l, s) == [S EXCEPT !.leaves[l].open = @ \ {s}]

\* ------------------------------------------------------------- stop/dispose

\* unsubscribeObject(x) for a branch
UnsubscribeBranch(S, b) == [S EXCEPT !.branches[b].sub = NoSubscription]

\* removeAllSignals
RemoveAllSignals(S, b) == [S EXCEPT !.branches[b].signals = <<>>]

\* A removeAllTeardowns that runs the teardowns and keeps them.
RemoveAllTeardownsKeeps(S, b) ==
    [S EXCEPT !.hist.teardownRuns[b] = @ + S.branches[b].teardowns]

\* removeAllTeardowns: the registered teardowns run and the list is dropped
\* (_teardowns is undefined: no pending teardown, no closed Subscription)
RemoveAllTeardowns(S, b) ==
    [S EXCEPT !.branches[b].teardowns = 0,
              !.branches[b].teardownsClosed = FALSE,
              !.hist.teardownRuns[b] = @ + S.branches[b].teardowns]

\* removeAllFinalizers
RemoveAllFinalizers(S, b) ==
    [S EXCEPT !.branches[b].finalizers = 0,
              !.branches[b].finalizersClosed = FALSE,
              !.hist.finalizerRuns[b] = @ + S.branches[b].finalizers]

\* Branch.teardown(x): a Subscription created on a stopped branch is closed at
\* once, and add(x) on a closed Subscription executes x there and then.
BranchTeardown(S, b) ==
    LET undefined == S.branches[b].teardowns = 0 /\ ~S.branches[b].teardownsClosed
        closed == IF undefined THEN S.branches[b].stopped
                  ELSE S.branches[b].teardownsClosed
    IN IF closed
       THEN [S EXCEPT !.branches[b].teardownsClosed = TRUE,
                      !.hist.teardownsAdded[b] = @ + 1,
                      !.hist.teardownRuns[b] = @ + 1]
       ELSE [S EXCEPT !.branches[b].teardowns = @ + 1,
                      !.hist.teardownsAdded[b] = @ + 1]

\* A finalize(x) that looks at _stopped where the code looks at _disposed.
BranchFinalizeWhenStopped(S, b) ==
    LET undefined == S.branches[b].finalizers = 0 /\ ~S.branches[b].finalizersClosed
        closed == IF undefined THEN S.branches[b].stopped
                  ELSE S.branches[b].finalizersClosed
    IN IF closed
       THEN [S EXCEPT !.branches[b].finalizersClosed = TRUE,
                      !.hist.finalizersAdded[b] = @ + 1,
                      !.hist.finalizerRuns[b] = @ + 1]
       ELSE [S EXCEPT !.branches[b].finalizers = @ + 1,
                      !.hist.finalizersAdded[b] = @ + 1]

\* Branch.finalize(x): the same with _disposed
BranchFinalize(S, b) ==
    LET undefined == S.branches[b].finalizers = 0 /\ ~S.branches[b].finalizersClosed
        closed == IF undefined THEN S.branches[b].disposed
                  ELSE S.branches[b].finalizersClosed
    IN IF closed
       THEN [S EXCEPT !.branches[b].finalizersClosed = TRUE,
                      !.hist.finalizersAdded[b] = @ + 1,
                      !.hist.finalizerRuns[b] = @ + 1]
       ELSE [S EXCEPT !.branches[b].finalizers = @ + 1,
                      !.hist.finalizersAdded[b] = @ + 1]

RECURSIVE StopBranch(_, _)
RECURSIVE DisposeBranch(_, _)
RECURSIVE DisposeEach(_, _)

RECURSIVE DisposeEachUntilThrow(_, _)

\* A forEach(disposeBranch) that an exception ends: the child in which a
\* teardown or finalizer throws is the last one disposed (hist.throwers: the
\* branches on which a throwing teardown or finalizer was registered).
DisposeEachUntilThrow(S, bs) ==
    IF bs = <<>> THEN S
    ELSE IF /\ Head(bs) \in S.hist.throwers
            /\ S.branches[Head(bs)].teardowns + S.branches[Head(bs)].finalizers > 0
         THEN DisposeBranch(S, Head(bs))
         ELSE DisposeEachUntilThrow(DisposeBranch(S, Head(bs)), Tail(bs))

\* branches.forEach(disposeBranch)
DisposeEach(S, bs) ==
    IF bs = <<>> THEN S ELSE DisposeEach(DisposeBranch(S, Head(bs)), Tail(bs))

\* A removeAllBranches that forgets the children without disposing them.
RemoveAllBranchesForgets(S, b) == [S EXCEPT !.branches[b].children = <<>>]

\* removeAllBranches
RemoveAllBranches(S, b) ==
    [DisposeEach(S, S.branches[b].children) EXCEPT !.branches[b].children = <<>>]

\* A stopBranch that keeps the dependency subscription.
StopBranchKeepsSubscription(S, b) ==
    RemoveAllTeardowns(
        RemoveAllBranches(
            RemoveAllSignals(
                UnscheduleBranch([S EXCEPT !.branches[b].stopped = TRUE], b), b), b), b)

\* stopBranch
StopBranch(S, b) ==
    RemoveAllTeardowns(
        RemoveAllBranches(
            RemoveAllSignals(
                UnsubscribeBranch(
                    UnscheduleBranch([S EXCEPT !.branches[b].stopped = TRUE], b), b), b), b), b)

\* disposeBranch
DisposeBranch(S, b) ==
    RemoveAllFinalizers(StopBranch([S EXCEPT !.branches[b].disposed = TRUE], b), b)

\* Branch.dispose()
BranchDispose(S, b) ==
    IF S.branches[b].disposed THEN S
    ELSE LET parent == S.branches[b].parent
             S1 == IF parent # None
                   THEN LET children == S.branches[parent].children
                            index == IndexOf(children, b)
                        IN [S EXCEPT !.branches[parent].children =
                                         IF index > 0 THEN RemoveAt(children, index)
                                         ELSE children,
                                     !.branches[b].parent = None]
                   ELSE S
         IN DisposeBranch(S1, b)

\* Branch.schedule()
BranchSchedule(S, b) == IF S.branches[b].disposed THEN S ELSE ScheduleBranch(S, b)

\* Branch.unschedule()
BranchUnschedule(S, b) == IF S.branches[b].disposed THEN S ELSE UnscheduleBranch(S, b)


\* ----------------------------------------------------------- tracking stack

Frame(kind, id, how, previousLength) ==
    [kind |-> kind, id |-> id, how |-> how, previousLength |-> previousLength]

Pop(stack) == SubSeq(stack, 1, Len(stack) - 1)

Top(stack) == stack[Len(stack)]

\* Twig.connect(signal)
TwigConnect(S, t, signal) ==
    IF ~S.twigs[t].running THEN S
    ELSE [S EXCEPT !.twigs[t].signals = AddSignal(@, signal)]

\* A connect(signal) that does not look at _frozen.
BranchConnectFrozenToo(S, b, signal) ==
    IF ~S.branches[b].running \/ S.branches[b].stopped THEN S
    ELSE [S EXCEPT !.branches[b].signals = AddSignal(@, signal)]

\* Branch.connect(signal)
BranchConnect(S, b, signal) ==
    IF ~S.branches[b].running \/ S.branches[b].frozen \/ S.branches[b].stopped THEN S
    ELSE [S EXCEPT !.branches[b].signals = AddSignal(@, signal)]

\* A connectSignal(signal) that tells the outermost connector.
ConnectSignalOutermost(S, signal) ==
    IF S.connectors = <<>> THEN S
    ELSE LET bottom == S.connectors[1]
         IN IF bottom.kind = "twig" THEN TwigConnect(S, bottom.id, signal)
            ELSE BranchConnect(S, bottom.id, signal)

\* collectSignals(cb): the connector it pushes, with its local array `signals`
CollectorFrame ==
    [kind |-> "collector", id |-> None, how |-> "collect", previousLength |-> 0,
     signals |-> <<>>]

\* connect(signal) of that connector: signals.push(signal)
CollectorConnect(S, signal) ==
    [S EXCEPT !.connectors[Len(S.connectors)].signals = Append(@, signal)]

\* connectSignal(signal): only the top connector is told
ConnectSignal(S, signal) ==
    IF S.connectors = <<>> THEN S
    ELSE LET top == Top(S.connectors)
         IN IF top.kind = "twig" THEN TwigConnect(S, top.id, signal)
            ELSE IF top.kind = "collector" THEN CollectorConnect(S, signal)
            ELSE BranchConnect(S, top.id, signal)

\* What the handler on top of the stack did, for the claims: the signals it
\* read in this run, and whether its branch was frozen when it read them.
NoteRead(S, signal) ==
    IF S.connectors = <<>> THEN S
    ELSE LET top == Top(S.connectors)
         IN IF top.kind = "twig"
            THEN [S EXCEPT !.hist.twigReads[top.id] = @ \cup {signal}]
            ELSE IF top.kind = "collector" THEN S
            ELSE IF S.branches[top.id].frozen
                 THEN [S EXCEPT !.hist.frozenReads[top.id] = @ \cup {signal}]
                 ELSE [S EXCEPT !.hist.reads[top.id] = @ \cup {signal}]

\* Leaf.read(): the state afterwards; the result is S.leaves[l].value
LeafRead(S, l) == ConnectSignal(NoteRead(S, l), l)

\* -------------------------------------------------------------------- twigs

Instr(kind, sig, throwIf, retIf, catch) ==
    [kind |-> kind, sig |-> sig, throwIf |-> throwIf, retIf |-> retIf, catch |-> catch]

\* The handlers of the two twigs.
\*   twig 3:  () => { const a = leaf1.read(); if (a === 0) return a
\*                    const b = leaf2.read(); if (b === 0) throw new Error()
\*                    return a + b }
\*   twig 4:  () => { try { return twig3.read() } catch (e) { return Caught } }
TwigProgram(t) ==
    IF t = 3
    THEN <<Instr("leaf", 1, NoKey, 0, FALSE), Instr("leaf", 2, 0, NoKey, FALSE)>>
    ELSE <<Instr("twig", 3, NoKey, NoKey, TRUE)>>

\* Handlers that read their own twig and each other:
\*   twig 3:  () => leaf1.read() + (twig4.read() || 0)
\*   twig 4:  () => (twig4.read() || 0) + (twig3.read() || 0)
CyclicProgram(t) ==
    IF t = 3
    THEN <<Instr("leaf", 1, NoKey, NoKey, FALSE), Instr("twigOr0", 4, NoKey, NoKey, FALSE)>>
    ELSE <<Instr("twigOr0", 4, NoKey, NoKey, FALSE), Instr("twigOr0", 3, NoKey, NoKey, FALSE)>>

\* twig.handler
HandlerOf(S, t) == IF S.handlers = "cycle" THEN CyclicProgram(t) ELSE TwigProgram(t)

RECURSIVE RunTwig(_, _)
RECURSIVE ExecTwig(_, _, _, _)

\* A clean() that does not look at dirty.
TwigCleanAlways(S, t) == RunTwig(S, t)

\* Twig.clean(): [S, threw]
TwigClean(S, t) ==
    IF S.twigs[t].dirty THEN RunTwig(S, t) ELSE [S |-> S, threw |-> FALSE]

\* Twig.read(): [S, threw]; the result is S.twigs[t].value
TwigRead(S, t) ==
    Only({IF R.threw THEN R ELSE [S |-> ConnectSignal(R.S, t), threw |-> FALSE] :
              R \in {TwigClean(NoteRead(S, t), t)}})

\* handler() of twig t from instruction pc on: [S, threw, value]
ExecTwig(S, t, pc, acc) ==
    IF pc > Len(HandlerOf(S, t)) THEN [S |-> S, threw |-> FALSE, value |-> acc]
    ELSE
        LET i == HandlerOf(S, t)[pc]
        IN IF i.kind = "leaf"
           THEN Only({LET v == S1.leaves[i.sig].value
                      IN IF v = i.throwIf
                         THEN [S |-> S1, threw |-> TRUE, value |-> Undefined]
                         ELSE IF v = i.retIf
                              THEN [S |-> S1, threw |-> FALSE, value |-> acc + v]
                              ELSE ExecTwig(S1, t, pc + 1, acc + v) :
                          S1 \in {LeafRead(S, i.sig)}})
           ELSE Only({LET v == IF i.kind = "twigOr0" /\ R.S.twigs[i.sig].value = Undefined
                               THEN 0 ELSE R.S.twigs[i.sig].value
                      IN IF R.threw
                         THEN IF i.catch THEN ExecTwig(R.S, t, pc + 1, acc + Caught)
                              ELSE [S |-> R.S, threw |-> TRUE, value |-> Undefined]
                         ELSE ExecTwig(R.S, t, pc + 1, acc + v) :
                          R \in {TwigRead(S, i.sig)}})

\* unsubscribeObject(x) for a twig
UnsubscribeTwig(S, t) == [S EXCEPT !.twigs[t].sub = NoSubscription]

\* A finally block that leaves the subscription as it was.
RunTwigFinallyKeepsSubscription(S, t, previousLength) ==
    [S EXCEPT !.twigs[t].signals = RemoveDiscardedSignals(@),
              !.twigs[t].running = FALSE,
              !.connectors = Pop(@)]

\* runTwig's finally block
RunTwigFinally(S, t, previousLength) ==
    LET signals == S.twigs[t].signals
        someAdded == previousLength # Len(signals)
        kept == RemoveDiscardedSignals(signals)
        someRemoved == Len(kept) < Len(signals)
        signalsChanged == someAdded \/ someRemoved
        S1 == [S EXCEPT !.twigs[t].signals = kept,
                        !.twigs[t].running = FALSE,
                        !.connectors = Pop(@)]
    IN IF ~signalsChanged THEN S1
       ELSE LET S2 == UnsubscribeTwig(S1, t)
            IN IF kept = <<>> THEN S2
               ELSE [S2 EXCEPT !.twigs[t].sub = NewSubscription(kept),
                               !.leaves = OpenSubjects(@, kept)]

\* A runTwig that lets a twig whose handler is executing be run once more.
RunTwigReentrant(S, t) ==
    IF Cardinality({i \in 1..Len(S.connectors) :
                        S.connectors[i].kind = "twig" /\ S.connectors[i].id = t}) >= 2
    THEN [S |-> S, threw |-> FALSE]
    ELSE
        LET previousLength == Len(S.twigs[t].signals)
            S1 == [S EXCEPT !.connectors = Append(@, Frame("twig", t, "clean", previousLength)),
                            !.twigs[t].running = TRUE,
                            !.twigs[t].signals = SetDiscarded(@),
                            !.hist.twigCalls =
                                Append(@, [twig |-> t, dirty |-> S.twigs[t].dirty]),
                            !.hist.twigReads[t] = {}]
        IN Only({[S |-> RunTwigFinally(
                            IF R.threw THEN [R.S EXCEPT !.hist.twigThrew = @ \cup {t}]
                            ELSE [R.S EXCEPT !.twigs[t].value = R.value,
                                             !.twigs[t].dirty = FALSE],
                            t, previousLength),
                  threw |-> R.threw] :
                     R \in {ExecTwig(S1, t, 1, 0)}})

\* runTwig(twig): [S, threw]
RunTwig(S, t) ==
    IF S.twigs[t].running THEN [S |-> S, threw |-> FALSE]
    ELSE
        LET previousLength == Len(S.twigs[t].signals)
            S1 == [S EXCEPT !.connectors = Append(@, Frame("twig", t, "clean", previousLength)),
                            !.twigs[t].running = TRUE,
                            !.twigs[t].signals = SetDiscarded(@),
                            !.hist.twigCalls =
                                Append(@, [twig |-> t, dirty |-> S.twigs[t].dirty]),
                            !.hist.twigReads[t] = {}]
        IN Only({[S |-> RunTwigFinally(
                            IF R.threw THEN [R.S EXCEPT !.hist.twigThrew = @ \cup {t}]
                            ELSE [R.S EXCEPT !.twigs[t].value = R.value,
                                             !.twigs[t].dirty = FALSE],
                            t, previousLength),
                  threw |-> R.threw] :
                     R \in {ExecTwig(S1, t, 1, 0)}})


\* ----------------------------------------------------------------- branches

\* A runBranch that does not look at disposed.
RunBranchBeginDisposedToo(S, b, how) ==
    LET S1 == [S EXCEPT !.branches[b].running = TRUE,
                        !.branches[b].frozen = FALSE,
                        !.branches[b].stopped = FALSE]
    IN Only({[S3 EXCEPT !.connectors = Append(@, Frame("branch", b, how,
                                                       Len(S3.branches[b].signals))),
                        !.branches[b].signals = SetDiscarded(@),
                        !.hist.calls = Append(@, b),
                        !.hist.reads[b] = {},
                        !.hist.frozenReads[b] = {}] :
                 S3 \in {RemoveAllTeardowns(RemoveAllBranches(S1, b), b)}})

\* runBranch(branch) up to the call of the handler; `how` is the caller:
\* "new" (the constructor), "run" (Branch.run) or "flush" (AsyncScheduler.flush).
\* A disposed branch returns at once and no frame is pushed.
RunBranchBegin(S, b, how) ==
    IF S.branches[b].disposed THEN S
    ELSE
        LET S1 == [S EXCEPT !.branches[b].running = TRUE,
                            !.branches[b].frozen = FALSE,
                            !.branches[b].stopped = FALSE]
        IN Only({[S3 EXCEPT !.connectors = Append(@, Frame("branch", b, how,
                                                           Len(S3.branches[b].signals))),
                            !.branches[b].signals = SetDiscarded(@),
                            !.hist.calls = Append(@, b),
                            !.hist.reads[b] = {},
                            !.hist.frozenReads[b] = {}] :
                     S3 \in {RemoveAllTeardowns(RemoveAllBranches(S1, b), b)}})

\* obs.subscribe(next, next, next) on merge(...signals.map(x => x.observable))
\* with next = () => scheduleBranch(branch).  A source that has errored
\* errors the merge, which closes the whole subscription and calls next; a
\* source that has completed drops out of the merge, and the merge
\* completes, calling next, when nothing is left.
SubscribeBranch(S, b, kept) ==
    LET ended(how) == {s \in SignalSet(kept) \cap Sources : S.sources[s] = how}
        live == SignalSet(kept) \ (ended("errored") \cup ended("completed"))
    IN IF ended("errored") # {} \/ live = {}
       THEN ScheduleBranch([S EXCEPT !.branches[b].sub = NoSubscription,
                                     !.leaves = OpenSubjects(@, kept)], b)
       ELSE [S EXCEPT !.branches[b].sub = [s \in live |-> NoKey],
                      !.leaves = OpenSubjects(@, kept)]

\* The source of a created signal emits: next of every branch subscribed to it
SignalNext(S, s) ==
    ScheduleAll(S, Ascending({b \in BranchIDs : s \in DOMAIN S.branches[b].sub}))

\* hist.lost: the branches that were subscribed to a source when it ended.

\* The source errors: the merge of every branch subscribed to it errors, its
\* subscription is closed and its error callback (next) runs.
SignalError(S, s) ==
    ScheduleAll([S EXCEPT !.sources[s] = "errored",
                          !.hist.lost = @ \cup {b \in BranchIDs :
                                                    s \in DOMAIN S.branches[b].sub},
                          !.branches = [b \in BranchIDs |->
                              IF s \in DOMAIN S.branches[b].sub
                              THEN [S.branches[b] EXCEPT !.sub = NoSubscription]
                              ELSE S.branches[b]]],
                Ascending({b \in BranchIDs : s \in DOMAIN S.branches[b].sub}))

\* The source completes: it drops out of every merge that holds it, and a
\* merge with nothing left completes and runs its complete callback (next).
SignalComplete(S, s) ==
    ScheduleAll([S EXCEPT !.sources[s] = "completed",
                          !.hist.lost = @ \cup {b \in BranchIDs :
                                                    s \in DOMAIN S.branches[b].sub},
                          !.branches = [b \in BranchIDs |->
                              [S.branches[b] EXCEPT !.sub =
                                  [x \in DOMAIN S.branches[b].sub \ {s} |->
                                       S.branches[b].sub[x]]]]],
                Ascending({b \in BranchIDs : DOMAIN S.branches[b].sub = {s}}))

\* A finally block that restores the flag and the stack and leaves the
\* subscription as it was.
RunBranchFinallyKeepsSubscription(S) ==
    [S EXCEPT !.branches[Top(S.connectors).id].signals = RemoveDiscardedSignals(@),
              !.branches[Top(S.connectors).id].running = FALSE,
              !.connectors = Pop(@)]

\* A finally block that subscribes afresh whether the signals changed or not.
RunBranchFinallyResubscribes(S) ==
    LET b == Top(S.connectors).id
        kept == RemoveDiscardedSignals(S.branches[b].signals)
        S1 == [S EXCEPT !.branches[b].signals = kept,
                        !.branches[b].running = FALSE,
                        !.connectors = Pop(@)]
    IN IF S1.branches[b].stopped THEN S1
       ELSE IF kept = <<>> THEN UnsubscribeBranch(S1, b)
       ELSE SubscribeBranch(UnsubscribeBranch(S1, b), b, kept)

\* A finally block that leaves the branch's frame on the tracking stack.
RunBranchFinallyLeavesFrame(S) ==
    [S EXCEPT !.branches[Top(S.connectors).id].signals = RemoveDiscardedSignals(@),
              !.branches[Top(S.connectors).id].running = FALSE]

\* runBranch's finally block, for the frame on top of the stack
RunBranchFinally(S) ==
    LET frame == Top(S.connectors)
        b == frame.id
        signals == S.branches[b].signals
        someAdded == frame.previousLength # Len(signals)
        kept == RemoveDiscardedSignals(signals)
        someRemoved == Len(kept) < Len(signals)
        signalsChanged == someAdded \/ someRemoved
        S1 == [S EXCEPT !.branches[b].signals = kept,
                        !.branches[b].running = FALSE,
                        !.connectors = Pop(@)]
    IN IF S1.branches[b].stopped THEN S1
       ELSE IF ~signalsChanged THEN S1
       ELSE IF kept = <<>> THEN UnsubscribeBranch(S1, b)
       ELSE SubscribeBranch(UnsubscribeBranch(S1, b), b, kept)

\* The while loop of AsyncScheduler.flush, up to the next handler it invokes or
\* to the end of flush().
RECURSIVE FlushLoop(_)
FlushLoop(S) ==
    LET runningBranches == S.sched.runningBranches
    IN IF runningBranches = <<>>
       THEN [S EXCEPT !.sched.runningBranch = None, !.sched.draining = FALSE,
                      !.hist.flushEnded = TRUE]
       ELSE LET runningBranch == runningBranches[Len(runningBranches)]
                S1 == [S EXCEPT !.sched.runningBranches = Pop(runningBranches),
                                !.branches[runningBranch].scheduledBy = FALSE,
                                !.sched.runningBranch = runningBranch]
            IN IF S1.branches[runningBranch].disposed THEN FlushLoop(S1)
               ELSE RunBranchBegin(
                        [S1 EXCEPT !.hist.flushLog = Append(@, runningBranch)],
                        runningBranch, "flush")

\* AsyncScheduler.flush(), called back by the scheduling primitive
FlushBegin(S) ==
    FlushLoop([S EXCEPT !.sched.runningBranches = S.sched.scheduledBranches,
                        !.sched.scheduled = FALSE,
                        !.sched.scheduledBranches = <<>>,
                        !.sched.draining = TRUE,
                        !.sched.callbacks = @ - 1,
                        !.hist.flushLog = <<>>,
                        !.hist.flushQueued = Range(S.sched.scheduledBranches)])

\* new Branch(handler): [S, threw].  The identity is taken before the
\* constructor body runs, so a constructor that throws has used one up.
BranchNew(S) ==
    LET b == S.nextBranchID
        S0 == [S EXCEPT !.nextBranchID = @ + 1]
    IN IF S0.connectors = <<>>
       THEN [S |-> RunBranchBegin([S0 EXCEPT !.branches[b].exists = TRUE], b, "new"),
             threw |-> FALSE]
       ELSE LET parent == Top(S0.connectors)
            IN IF parent.kind # "branch" \/ S0.branches[parent.id].stopped
               THEN [S |-> S0, threw |-> TRUE]
               ELSE [S |-> RunBranchBegin(
                               [S0 EXCEPT !.branches[b].exists = TRUE,
                                          !.branches[b].parent = parent.id,
                                          !.branches[parent.id].children = Append(@, b)],
                               b, "new"),
                     threw |-> FALSE]

\* Branch.run() without the check of _running
BranchRunAnyway(S, b) ==
    [S |-> RunBranchBegin(
               [S EXCEPT !.hist.rerun =
                    IF S.branches[b].stopped /\ ~S.branches[b].disposed
                    THEN @ \cup {b} ELSE @ \ {b}],
               b, "run"),
     threw |-> FALSE]

\* Branch.run(): [S, threw].  hist.rerun: the branches whose last run() found
\* them stopped.
BranchRun(S, b) ==
    IF S.branches[b].running THEN [S |-> S, threw |-> TRUE]
    ELSE [S |-> RunBranchBegin(
                    [S EXCEPT !.hist.rerun =
                         IF S.branches[b].stopped /\ ~S.branches[b].disposed
                         THEN @ \cup {b} ELSE @ \ {b}],
                    b, "run"),
          threw |-> FALSE]

\* A handler returns or throws: the finally block runs; a run started by
\* flush() is followed by the rest of flush's loop (tryCatch swallows the error).
HandlerEnd(S) ==
    IF Top(S.connectors).how = "flush" THEN FlushLoop(RunBranchFinally(S))
    ELSE RunBranchFinally(S)

\* --------------------------------------------------------------------- Init

NewLeaf(v) ==
    [value |-> v, hasSubject |-> FALSE, subscription |-> None, hasMany |-> FALSE,
     many |-> {}, open |-> {}, attached |-> 0]

NewTwig ==
    [dirty |-> TRUE, value |-> Undefined, signals |-> <<>>, running |-> FALSE,
     sub |-> NoSubscription]

NoBranch ==
    [exists |-> FALSE, running |-> FALSE, frozen |-> FALSE, stopped |-> FALSE,
     disposed |-> FALSE, signals |-> <<>>, parent |-> None, children |-> <<>>,
     scheduledBy |-> FALSE, sync |-> FALSE, sub |-> NoSubscription, teardowns |-> 0,
     finalizers |-> 0,
     teardownsClosed |-> FALSE, finalizersClosed |-> FALSE]

NewScheduler ==
    [scheduled |-> FALSE, scheduledBranches |-> <<>>, runningBranches |-> <<>>,
     runningBranch |-> None, draining |-> FALSE, callbacks |-> 0]

\* What generateSignalID has handed out to the universe above, in order
\* (hist.signals: the kind and identity of every signal created)
UniverseLog ==
    <<[kind |-> "leaf", identity |-> 1], [kind |-> "leaf", identity |-> 2],
      [kind |-> "twig", identity |-> 3], [kind |-> "twig", identity |-> 4],
      [kind |-> "signal", identity |-> 5]>>

NoHistory ==
    [op |-> "init", arg |-> 0, differs |-> FALSE, value |-> NoKey, sub |-> None,
     closed |-> [l \in Leaves |-> {}], lost |-> {}, failed |-> {}, throwers |-> {}, signals |-> UniverseLog,
     twigCalls |-> <<>>, twigThrew |-> {}, calls |-> <<>>, raised |-> FALSE,
     flushEnded |-> FALSE, flushLog |-> <<>>, flushQueued |-> {}, dequeued |-> {},
     rerun |-> {},
     asked |-> [b \in BranchIDs |-> 0],
     reads |-> [b \in BranchIDs |-> {}], frozenReads |-> [b \in BranchIDs |-> {}],
     twigReads |-> [t \in Twigs |-> {}],
     teardownRuns |-> [b \in BranchIDs |-> 0], finalizerRuns |-> [b \in BranchIDs |-> 0],
     teardownsAdded |-> [b \in BranchIDs |-> 0],
     finalizersAdded |-> [b \in BranchIDs |-> 0]]

\* The program after createLeaf(v1), createLeaf(v2), createTwig(h3), createTwig(h4)
CreatedWith(initial, given) ==
    /\ handlers = given
    /\ nextSignalID = 6
    /\ leaves \in [Leaves -> {NewLeaf(v) : v \in initial}]
    /\ twigs = [t \in Twigs |-> NewTwig]
    /\ branches = [b \in BranchIDs |-> NoBranch]
    /\ sched = NewScheduler
    /\ connectors = <<>>
    /\ nextBranchID = 1
    /\ sources = [s \in Sources |-> "live"]
    /\ hist = NoHistory

Created(initial) == CreatedWith(initial, "chain")

Init == Created(Values) /\ ops = MaxOps

\* ------------------------------------------------------------------ actions

\* The state an action starts from: the per-action observations are cleared.
Pre ==
    [State EXCEPT !.hist.twigCalls = <<>>, !.hist.twigThrew = {},
                  !.hist.calls = <<>>, !.hist.raised = FALSE,
                  !.hist.differs = FALSE, !.hist.flushEnded = FALSE,
                  !.hist.value = NoKey, !.hist.sub = None]

\* The action's name and argument are noted, and the branches that left the
\* scheduler's queues in this action without being run (hist.dequeued, until
\* they are queued again), and the observe() subscriptions it closed.
Observe(op, arg, S) ==
    LET left == {b \in BranchIDs : /\ branches[b].scheduledBy
                                   /\ ~S.branches[b].scheduledBy
                                   /\ b \notin Range(S.hist.calls)}
        queued == {b \in BranchIDs : S.branches[b].scheduledBy}
    IN [S EXCEPT !.hist.op = op, !.hist.arg = arg,
                 !.hist.dequeued = (@ \cup left) \ queued,
                 !.hist.closed = [l \in Leaves |->
                                      leaves[l].open \ S.leaves[l].open]]

Existing == {b \in BranchIDs : branches[b].exists}

InHandler == connectors # <<>>

\* The step of the program to state S (S is computed once, then committed)
Step(op, arg, S) == \E T \in {S} : Commit(Observe(op, arg, T))

\* A library call counted against the bound
Call(op, arg, S) == ops > 0 /\ ops' = ops - 1 /\ Step(op, arg, S)

\* leaf.write(v), from outside or from a branch handler
Write(l, v) ==
    /\ l \in Leaves
    /\ Call("write", l,
            [LeafWrite(Pre, l, v) EXCEPT !.hist.differs = (v # leaves[l].value),
                                         !.hist.value = v])

\* connectSignal(signal) with a created signal, in a branch handler
HandlerConnect(s) ==
    /\ InHandler
    /\ s \in Sources
    /\ Call("connect", s, ConnectSignal(NoteRead(Pre, s), s))

\* the source of a created signal emits, errors or completes
SignalEmits(s) ==
    /\ sources[s] = "live"
    /\ Call("signalNext", s, SignalNext(Pre, s))

SignalErrors(s) ==
    /\ sources[s] = "live"
    /\ Call("signalError", s, SignalError(Pre, s))

SignalCompletes(s) ==
    /\ sources[s] = "live"
    /\ Call("signalComplete", s, SignalComplete(Pre, s))

\* twig.notify(), from outside or from a branch handler
Notify(t) == t \in Twigs /\ Call("notify", t, TwigNotify(Pre, t))

\* leaf.observe(source), from outside every handler
ObserveSource(l, now, done) ==
    /\ l \in Leaves
    /\ leaves[l].attached < MaxSources
    /\ Call("observe", l,
            [LeafObserve(Pre, l, now, done) EXCEPT
                 !.hist.sub = leaves[l].attached + 1, !.hist.value = now])

\* the source that observe() subscribed to with subscription s emits v
Emit(l, s, v) ==
    /\ l \in Leaves
    /\ s \in 1..leaves[l].attached
    /\ Call("emit", l,
            [SourceNext(Pre, l, s, v) EXCEPT !.hist.sub = s, !.hist.value = v])

\* that source completes
Complete(l, s) ==
    /\ l \in Leaves
    /\ s \in leaves[l].open
    /\ Call("complete", l, [SourceComplete(Pre, l, s) EXCEPT !.hist.sub = s])

\* leaf.unobserve()
UnobserveAll(l) == l \in Leaves /\ Call("unobserve", l, Unobserve(Pre, l))

\* twig.value (or twig.read()) from outside every handler
TwigValue(t) ==
    /\ ~InHandler
    /\ \E R \in {TwigClean(Pre, t)} :
           Call("value", t, [R.S EXCEPT !.hist.raised = R.threw])

\* leaf.read() in a branch handler
HandlerReadLeaf(l) == InHandler /\ Call("readLeaf", l, LeafRead(Pre, l))

\* twig.read() in a branch handler
HandlerReadTwig(t) ==
    /\ InHandler
    /\ \E R \in {TwigRead(Pre, t)} :
           Call("readTwig", t, [R.S EXCEPT !.hist.raised = R.threw])

\* branch.freeze() / branch.unfreeze() on the handler's own branch
Freeze ==
    /\ InHandler
    /\ ~branches[Top(connectors).id].frozen
    /\ Call("freeze", Top(connectors).id,
            [Pre EXCEPT !.branches[Top(connectors).id].frozen = TRUE])

Unfreeze ==
    /\ InHandler
    /\ branches[Top(connectors).id].frozen
    /\ Call("unfreeze", Top(connectors).id,
            [Pre EXCEPT !.branches[Top(connectors).id].frozen = FALSE])

\* createBranch(handler), from outside or nested in a branch handler
NewBranch ==
    /\ nextBranchID <= MaxBranches
    /\ \E R \in {BranchNew(Pre)} :
           Call("new", nextBranchID, [R.S EXCEPT !.hist.raised = R.threw])

Run(b) ==
    /\ b \in Existing
    /\ \E R \in {BranchRun(Pre, b)} :
           Call("run", b, [R.S EXCEPT !.hist.raised = R.threw])

Stop(b) == b \in Existing /\ Call("stop", b, StopBranch(Pre, b))

Dispose(b) == b \in Existing /\ Call("dispose", b, BranchDispose(Pre, b))

Schedule(b) == b \in Existing /\ Call("schedule", b, BranchSchedule(Pre, b))

Unschedule(b) == b \in Existing /\ Call("unschedule", b, BranchUnschedule(Pre, b))

\* branch.teardown(x) / branch.finalize(x), from a handler or from outside
Teardown(b) == b \in Existing /\ Call("teardown", b, BranchTeardown(Pre, b))

Finalize(b) == b \in Existing /\ Call("finalize", b, BranchFinalize(Pre, b))

\* branch.teardown(x) / branch.finalize(x) with an x that throws when it is
\* executed: Subscription.unsubscribe executes every teardown it holds and
\* throws an UnsubscriptionError afterwards, which tryCatch catches
TeardownThrows(b) ==
    /\ b \in Existing
    /\ Call("teardownThrows", b,
            [BranchTeardown(Pre, b) EXCEPT !.hist.throwers = @ \cup {b}])

FinalizeThrows(b) ==
    /\ b \in Existing
    /\ Call("finalizeThrows", b,
            [BranchFinalize(Pre, b) EXCEPT !.hist.throwers = @ \cup {b}])

\* the handler on top of the stack returns or throws
Return ==
    /\ InHandler
    /\ Top(connectors).kind = "branch"
    /\ Step("return", Top(connectors).id,
            [HandlerEnd(Pre) EXCEPT !.hist.failed = @ \ {Top(connectors).id}])
    /\ UNCHANGED ops

\* A throw that flush() does not catch: the finally block of runBranch runs
\* and the flush is left where it was.
ThrowOutOfFlush ==
    /\ InHandler
    /\ Step("throw", Top(connectors).id,
            [RunBranchFinally(Pre) EXCEPT !.hist.failed = @ \cup {Top(connectors).id}])
    /\ UNCHANGED ops

\* the handler on top of the stack throws, and the throw is noted
\* (hist.failed: the branches whose last run ended that way)
Throw ==
    /\ InHandler
    /\ Top(connectors).kind = "branch"
    /\ Step("throw", Top(connectors).id,
            [HandlerEnd(Pre) EXCEPT !.hist.failed = @ \cup {Top(connectors).id}])
    /\ UNCHANGED ops

\* createBranch(Scheduler.sync, handler), from outside every handler: the
\* scheduler is set before the constructor runs the handler
NewBranchSync ==
    /\ connectors = <<>>
    /\ nextBranchID = 1
    /\ \E R \in {BranchNew([Pre EXCEPT !.branches[nextBranchID].sync = TRUE])} :
           Call("new", nextBranchID, [R.S EXCEPT !.hist.raised = R.threw])

\* createCounter's closure () => ++id that forgets to count
CounterStuck(id) == id

\* createCounter: () => ++id, the next value of id
CounterNext(id) == id + 1

\* createLeaf / createTwig / createSignal: the constructor of Signal takes
\* its identity from generateSignalID (the model's counter holds the next
\* identity, as nextBranchID does)
CreateSignal(kind) ==
    /\ nextSignalID <= MaxSignals
    /\ Step("create", nextSignalID,
            [Pre EXCEPT !.nextSignalID = CounterNext(@),
                        !.hist.signals = Append(@, [kind |-> kind,
                                                    identity |-> nextSignalID])])
    /\ UNCHANGED ops

\* collectSignals(cb) is called and calls cb
Collect ==
    /\ ops > 0
    /\ Call("collect", 0, [Pre EXCEPT !.connectors = Append(@, CollectorFrame)])

\* cb returns or throws: the finally block of collectSignals pops the stack
CollectEnd ==
    /\ InHandler
    /\ Top(connectors).kind = "collector"
    /\ Step("collectEnd", 0, [Pre EXCEPT !.connectors = Pop(@)])
    /\ UNCHANGED ops

\* the scheduling primitive calls flush back
Flush ==
    /\ ~InHandler
    /\ sched.callbacks > 0
    /\ Step("flush", 0, FlushBegin(Pre))
    /\ UNCHANGED ops

Next ==
    \/ \E l \in Leaves, v \in Values : Write(l, v)
    \/ \E t \in Twigs : TwigValue(t)
    \/ \E l \in Leaves : HandlerReadLeaf(l)
    \/ \E t \in Twigs : HandlerReadTwig(t)
    \/ Freeze
    \/ Unfreeze
    \/ NewBranch
    \/ \E b \in BranchIDs : Run(b)
    \/ \E b \in BranchIDs : Stop(b)
    \/ \E b \in BranchIDs : Dispose(b)
    \/ \E b \in BranchIDs : Schedule(b)
    \/ \E b \in BranchIDs : Unschedule(b)
    \/ Return
    \/ Flush

Spec == Init /\ [][Next]_vars

\* The scheduler and the branch lifecycle alone, to a greater depth.
InitSched == Created({0}) /\ ops = MaxSchedOps

NextSched ==
    \/ NewBranch
    \/ \E b \in BranchIDs : Run(b)
    \/ \E b \in BranchIDs : Stop(b)
    \/ \E b \in BranchIDs : Dispose(b)
    \/ \E b \in BranchIDs : Schedule(b)
    \/ \E b \in BranchIDs : Unschedule(b)
    \/ Return
    \/ Flush

SpecSched == InitSched /\ [][NextSched]_vars

\* Leaves and twigs alone, read and written from outside every handler.
InitTwig == Created(Values) /\ ops = MaxTwigOps

NextTwig ==
    \/ \E l \in Leaves, v \in Values : Write(l, v)
    \/ \E t \in Twigs : TwigValue(t)

SpecTwig == InitTwig /\ [][NextTwig]_vars

\* Ownership and cleanup: the branch lifecycle with teardowns and finalizers.
InitOwn == Created({0}) /\ ops = MaxOwnOps

NextOwn ==
    \/ NewBranch
    \/ \E b \in BranchIDs : Run(b)
    \/ \E b \in BranchIDs : Stop(b)
    \/ \E b \in BranchIDs : Dispose(b)
    \/ \E b \in BranchIDs : Teardown(b)
    \/ \E b \in BranchIDs : Finalize(b)
    \/ Return

SpecOwn == InitOwn /\ [][NextOwn]_vars

\* Dependency tracking in branch handlers, with freeze() and unfreeze(), to a
\* greater depth.
InitFreeze == Created({0}) /\ ops = MaxFreezeOps

NextFreeze ==
    \/ \E l \in Leaves, v \in Values : Write(l, v)
    \/ \E l \in Leaves : HandlerReadLeaf(l)
    \/ \E t \in Twigs : HandlerReadTwig(t)
    \/ Freeze
    \/ Unfreeze
    \/ NewBranch
    \/ \E b \in BranchIDs : Run(b)
    \/ Return
    \/ Flush

SpecFreeze == InitFreeze /\ [][NextFreeze]_vars

\* Leaves fed by external sources: observe(), the sources' emissions and
\* completions, unobserve() and write(), with twigs reading the leaves.
InitObserve == Created({0}) /\ ops = MaxObserveOps

NextObserve ==
    \/ \E l \in Leaves, now \in Values \cup {NoKey}, done \in BOOLEAN :
           ObserveSource(l, now, done)
    \/ \E l \in Leaves, s \in 1..MaxSources, v \in Values : Emit(l, s, v)
    \/ \E l \in Leaves, s \in 1..MaxSources : Complete(l, s)
    \/ \E l \in Leaves : UnobserveAll(l)
    \/ \E l \in Leaves, v \in Values : Write(l, v)
    \/ \E t \in Twigs : TwigValue(t)

SpecObserve == InitObserve /\ [][NextObserve]_vars

\* Twigs that are made to notify, with the twigs and branches that read them.
InitNotify == Created({0}) /\ ops = MaxNotifyOps

NextNotify ==
    \/ \E l \in Leaves, v \in Values : Write(l, v)
    \/ \E t \in Twigs : TwigValue(t)
    \/ \E t \in Twigs : Notify(t)
    \/ \E t \in Twigs : HandlerReadTwig(t)
    \/ NewBranch
    \/ Return
    \/ Flush

SpecNotify == InitNotify /\ [][NextNotify]_vars

\* Branches that depend on a leaf and on a created signal whose source may
\* emit, complete or error.
InitSignal == Created({0}) /\ ops = MaxSignalOps

NextSignal ==
    \/ \E l \in Leaves, v \in Values : Write(l, v)
    \/ \E l \in Leaves : HandlerReadLeaf(l)
    \/ \E s \in Sources : HandlerConnect(s)
    \/ \E s \in Sources : SignalEmits(s)
    \/ \E s \in Sources : SignalErrors(s)
    \/ \E s \in Sources : SignalCompletes(s)
    \/ NewBranch
    \/ Return
    \/ Flush

SpecSignal == InitSignal /\ [][NextSignal]_vars

\* Branch handlers that throw: in the constructor's run, in run() and in a flush.
InitThrow == Created({0}) /\ ops = MaxThrowOps

NextThrow ==
    \/ \E l \in Leaves, v \in Values : Write(l, v)
    \/ \E l \in Leaves : HandlerReadLeaf(l)
    \/ NewBranch
    \/ \E b \in BranchIDs : Run(b)
    \/ \E b \in BranchIDs : Schedule(b)
    \/ Return
    \/ Throw
    \/ Flush

SpecThrow == InitThrow /\ [][NextThrow]_vars

\* The whole program under a scheduling primitive that calls back (setTimeout)
\* and handlers that come to an end.
InitLive == Created({0}) /\ ops = MaxLiveOps

SpecLive == InitLive /\ [][Next]_vars /\ WF_vars(Flush) /\ WF_vars(Return)

\* Branches scheduled, unscheduled, stopped and disposed from inside and outside
\* handlers, under a scheduling primitive that calls back and handlers that
\* come to an end.
InitDrain == Created({0}) /\ ops = MaxDrainOps

SpecDrain == InitDrain /\ [][NextSched]_vars /\ WF_vars(Flush) /\ WF_vars(Return)

\* Branches that create branches and register teardowns in their handlers, run
\* again by run() and by the scheduler.
InitRerun == Created({0}) /\ ops = MaxRerunOps

NextRerun ==
    \/ NewBranch
    \/ \E b \in BranchIDs : Run(b)
    \/ \E b \in BranchIDs : Schedule(b)
    \/ \E b \in BranchIDs : Teardown(b)
    \/ Return
    \/ Flush

SpecRerun == InitRerun /\ [][NextRerun]_vars

\* Twigs whose handlers read their own twig and each other, evaluated from
\* outside and from branch handlers.
InitCycle == CreatedWith(Values, "cycle") /\ ops = MaxCycleOps

NextCycle ==
    \/ \E t \in Twigs : TwigValue(t)
    \/ \E l \in Leaves : HandlerReadLeaf(l)
    \/ \E t \in Twigs : HandlerReadTwig(t)
    \/ NewBranch
    \/ \E b \in BranchIDs : Run(b)
    \/ Return

SpecCycle == InitCycle /\ [][NextCycle]_vars

\* Branch trees with teardowns and finalizers, some of which throw, stopped,
\* disposed and run again while queued.
InitPartial == Created({0}) /\ ops = MaxPartialOps

NextPartial ==
    \/ NewBranch
    \/ \E b \in BranchIDs : Run(b)
    \/ \E b \in BranchIDs : Stop(b)
    \/ \E b \in BranchIDs : Dispose(b)
    \/ \E b \in BranchIDs : Schedule(b)
    \/ \E b \in BranchIDs : Teardown(b)
    \/ \E b \in BranchIDs : TeardownThrows(b)
    \/ \E b \in BranchIDs : FinalizeThrows(b)
    \/ Return

SpecPartial == InitPartial /\ [][NextPartial]_vars

\* The tracking stack under twig evaluations, branch runs that return or
\* throw, and collectSignals, nested in each other.
InitStack == Created(Values) /\ ops = MaxStackOps

NextStack ==
    \/ \E t \in Twigs : TwigValue(t)
    \/ \E l \in Leaves : HandlerReadLeaf(l)
    \/ \E t \in Twigs : HandlerReadTwig(t)
    \/ NewBranch
    \/ \E b \in BranchIDs : Run(b)
    \/ \E b \in BranchIDs : Schedule(b)
    \/ Collect
    \/ CollectEnd
    \/ Return
    \/ Throw
    \/ Flush

SpecStack == InitStack /\ [][NextStack]_vars

\* The two identity generators: signals and branches created in any order.
InitIdentity ==
    /\ handlers = "chain"
    /\ nextSignalID = 1
    /\ leaves = [l \in Leaves |-> NewLeaf(0)]
    /\ twigs = [t \in Twigs |-> NewTwig]
    /\ branches = [b \in BranchIDs |-> NoBranch]
    /\ sched = NewScheduler
    /\ connectors = <<>>
    /\ nextBranchID = 1
    /\ sources = [s \in Sources |-> "live"]
    /\ hist = [NoHistory EXCEPT !.signals = <<>>]
    /\ ops = MaxBranches

NextIdentity ==
    \/ \E kind \in {"leaf", "twig", "signal"} : CreateSignal(kind)
    \/ NewBranch
    \/ Return

SpecIdentity == InitIdentity /\ [][NextIdentity]_vars

\* One branch on the synchronous scheduler, whose handler reads and writes
\* leaves; leaves are written from outside too.
InitSync == Created({0}) /\ ops = MaxSyncOps

NextSync ==
    \/ NewBranchSync
    \/ \E l \in Leaves, v \in Values : Write(l, v)
    \/ \E l \in Leaves : HandlerReadLeaf(l)
    \/ Return

SpecSync == InitSync /\ [][NextSync]_vars

\* Branches stopped from inside and outside their handlers, whose handlers go
\* on to read leaves, register teardowns and create branches.
InitStopped == Created({0}) /\ ops = MaxStoppedOps

NextStopped ==
    \/ \E l \in Leaves : HandlerReadLeaf(l)
    \/ NewBranch
    \/ \E b \in BranchIDs : Run(b)
    \/ \E b \in BranchIDs : Stop(b)
    \/ \E b \in BranchIDs : Teardown(b)
    \/ Return

SpecStopped == InitStopped /\ [][NextStopped]_vars


\* ------------------------------------------------------------------- claims

\* C1: within one flush() the identities of the branches whose handlers the
\* scheduler runs are strictly ascending, however and whenever the branches
\* were scheduled (hist.flushLog is the flush's sequence of handler runs), so
\* no branch runs twice in one flush.
C1_FlushAscending ==
    \A i \in 1..(Len(hist.flushLog) - 1) : hist.flushLog[i] < hist.flushLog[i + 1]

\* A flush that has run two handlers, while a handler running in it has put
\* one branch back in pending and another still waits in inFlight.
C1_Witness ==
    /\ sched.draining
    /\ Len(hist.flushLog) >= 2
    /\ sched.scheduledBranches # <<>>
    /\ sched.runningBranches # <<>>

\* How often flush() has run the handler of branch b so far
RunsInFlush(b) == Cardinality({i \in 1..Len(hist.flushLog) : hist.flushLog[i] = b})

\* C2 (as amended): createBranch runs the handler once, then and there; a
\* write() or a schedule() runs no handler; a flush runs no handler twice, and
\* when it ends it has run, once, every branch that was queued when it began,
\* except those that left the queue (unschedule, stop, dispose, or the restart,
\* stop or dispose of an ancestor) before their turn.
C2_OneRunPerFlush ==
    /\ (hist.op = "new" /\ ~hist.raised) =>
            /\ hist.calls = <<hist.arg>>
            /\ connectors # <<>>
            /\ Top(connectors).id = hist.arg
            /\ branches[hist.arg].running
    /\ hist.op \in {"write", "schedule"} => hist.calls = <<>>
    /\ \A b \in BranchIDs : RunsInFlush(b) <= 1
    /\ hist.flushEnded =>
            \A b \in hist.flushQueued : RunsInFlush(b) = 1 \/ b \in hist.dequeued

\* A flush has ended that ran a branch which was asked for more than once
\* while it waited (two notifications, or a notification and a schedule()).
C2_Witness ==
    /\ hist.flushEnded
    /\ \E b \in hist.flushQueued :
            /\ RunsInFlush(b) = 1
            /\ hist.asked[b] = 2
            /\ ~branches[b].scheduledBy
            /\ b \notin hist.dequeued
            /\ branches[b].sub # NoSubscription

\* C2 as stated: when a flush ends, it has run every branch that was queued
\* when it began.
C2_EveryQueuedBranchRuns ==
    hist.flushEnded => \A b \in hist.flushQueued : RunsInFlush(b) = 1

\* The branches whose last run has ended and that are neither stopped nor disposed
Settled(b) ==
    /\ branches[b].exists
    /\ ~branches[b].running
    /\ ~branches[b].stopped
    /\ ~branches[b].disposed

InQueue(b) ==
    /\ branches[b].scheduledBy
    /\ b \in Range(sched.scheduledBranches) \cup Range(sched.runningBranches)

\* write() has just returned, having changed the value of a leaf that the
\* last run of branch b read while b was not frozen.
WrittenFor(b) ==
    /\ hist.op = "write"
    /\ hist.differs
    /\ Settled(b)
    /\ hist.arg \in hist.reads[b]

RECURSIVE LeavesOfTwig(_)
LeavesOfTwig(t) ==
    (hist.twigReads[t] \cap Leaves)
        \cup UNION {LeavesOfTwig(u) : u \in hist.twigReads[t] \cap Twigs}

\* The same for the last run of branch b, frozen or not
LeavesOfBranch(b) ==
    LET read == hist.reads[b] \cup hist.frozenReads[b]
    IN (read \cap Leaves) \cup UNION {LeavesOfTwig(u) : u \in read \cap Twigs}

\* C4: write() to leaf L leaves alone every twig whose last run did not read L
\* (itself or through a twig) and every branch whose last run has ended and did
\* not read L: the twig's record (its dirty flag with it) and the branch's
\* record and place in the scheduler's queues are what they were, whatever
\* earlier runs read.
C4_WriteSparesNonReaders ==
    [][hist'.op = "write" =>
          /\ \A t \in Twigs :
                 hist'.arg \notin LeavesOfTwig(t) => twigs'[t] = twigs[t]
          /\ \A b \in BranchIDs :
                 (branches[b].exists /\ ~branches[b].running
                      /\ hist'.arg \notin LeavesOfBranch(b))
                     => /\ branches'[b] = branches[b]
                        /\ InQueue(b)' = InQueue(b)
                        /\ hist'.asked[b] = hist.asked[b]]_vars

\* write() has just changed leaf 2, which twig 3 read in an earlier run (it
\* opened the leaf's Subject; no branch was ever created) and not in its last
\* run, and twig 3 is still clean.
C4_Witness ==
    /\ hist.op = "write"
    /\ hist.arg = 2
    /\ hist.differs
    /\ nextBranchID = 1
    /\ leaves[2].hasSubject
    /\ hist.twigReads[3] = {1}
    /\ ~twigs[3].dirty

\* C5: write(v) of the value the leaf holds makes no twig dirty and queues no
\* branch, at any moment after the dependent subscribed; write(v) of another
\* value makes every subscribed twig dirty and queues every subscribed branch.
C5_OnlyChangesNotify ==
    [][hist'.op = "write" =>
          IF hist'.differs
          THEN /\ \A t \in Twigs : hist'.arg \in DOMAIN twigs[t].sub => twigs'[t].dirty
               /\ \A b \in BranchIDs :
                      hist'.arg \in DOMAIN branches[b].sub => InQueue(b)'
          ELSE /\ \A t \in Twigs : twigs'[t].dirty = twigs[t].dirty
               /\ \A b \in BranchIDs :
                      branches'[b].scheduledBy = branches[b].scheduledBy]_vars

\* What the handler of twig t returns for the leaf values of this state: the
\* handler run with no tracker on the stack and every twig it reads recomputed.
Returns(t) ==
    ExecTwig([State EXCEPT !.twigs = [u \in Twigs |-> NewTwig],
                           !.connectors = <<>>,
                           !.hist = NoHistory], t, 1, 0)

\* C6: cache coherence.  When no handler is executing, a twig that is not
\* dirty holds the value its handler would return for the current values of
\* the leaves.
C6_CacheCoherent ==
    connectors = <<>> =>
        \A t \in Twigs :
            ~twigs[t].dirty => /\ ~Returns(t).threw
                               /\ twigs[t].value = Returns(t).value

\* The twigs whose handlers the last action invoked
TwigsCalled == {hist.twigCalls[i].twig : i \in 1..Len(hist.twigCalls)}

\* C7: constructing a twig invokes no handler; a handler is invoked only in a
\* value/read() access and only for a twig that is dirty at that moment
\* (hist.twigCalls notes the flag at each invocation), so an access to a twig
\* that is not dirty invokes nothing; after a normal return dirty is false.
C7_HandlerOnlyWhenDirty ==
    /\ hist.op = "init" =>
           /\ hist.twigCalls = <<>>
           /\ \A t \in Twigs : twigs[t].dirty /\ twigs[t].value = Undefined
    /\ hist.twigCalls # <<>> => hist.op \in {"value", "readTwig"}
    /\ \A i \in 1..Len(hist.twigCalls) : hist.twigCalls[i].dirty
    /\ \A t \in TwigsCalled : t \notin hist.twigThrew => ~twigs[t].dirty

\* twig4.value has just invoked the handler of twig 4, which was dirty, and
\* that handler's read of twig 3, which was not, invoked nothing.
C7_Witness ==
    /\ hist.op = "value"
    /\ hist.arg = 4
    /\ hist.twigCalls = <<[twig |-> 4, dirty |-> TRUE]>>
    /\ hist.twigReads[4] = {3}
    /\ ~twigs[3].dirty
    /\ ~twigs[4].dirty

\* C8: when the handler of a twig throws in a value/read() access, the caller
\* gets the exception, and afterwards the twig is dirty, holds the value it
\* held before, is not running, and its dependency list and subscription are
\* exactly the signals the handler read before it threw; an access to a dirty
\* twig invokes its handler (again).
C8_ThrowKeepsTwigDirty ==
    [][hist'.op \in {"value", "readTwig"} =>
          /\ hist'.arg \in hist'.twigThrew => hist'.raised
          /\ \A t \in hist'.twigThrew :
                 /\ twigs'[t].dirty
                 /\ twigs'[t].value = twigs[t].value
                 /\ ~twigs'[t].running
                 /\ SignalSet(twigs'[t].signals) = hist'.twigReads[t]
                 /\ DOMAIN twigs'[t].sub = hist'.twigReads[t]
          /\ twigs[hist'.arg].dirty =>
                 /\ hist'.twigCalls # <<>>
                 /\ hist'.twigCalls[1].twig = hist'.arg]_vars

\* twig3.value has just thrown after reading leaves 1 and 2; the twig keeps
\* the value an earlier run returned.
C8_Witness ==
    /\ hist.op = "value"
    /\ hist.arg = 3
    /\ hist.raised
    /\ hist.twigReads[3] = {1, 2}
    /\ twigs[3].value # Undefined
    /\ twigs[3].dirty
    /\ DOMAIN twigs[3].sub = {1, 2}

\* C9: when stop() has returned the branch is in no queue and has no
\* subscription, and a stopped branch has none, so no write() queues it or
\* runs it; run() on a stopped branch (not disposed, not running) invokes the
\* handler then and there; and a branch whose run has ended, not stopped, is
\* subscribed to exactly the leaves that run read while not frozen, so that
\* writes to those leaves queue it again.
C9_StopThenRun ==
    [][/\ hist'.op = "stop" =>
              /\ branches'[hist'.arg].stopped
              /\ ~branches'[hist'.arg].scheduledBy
              /\ hist'.arg \notin
                     Range(sched'.scheduledBranches) \cup Range(sched'.runningBranches)
       /\ \A b \in BranchIDs :
              /\ branches'[b].stopped => branches'[b].sub = NoSubscription
              /\ (hist'.op = "write" /\ branches[b].stopped) =>
                     /\ branches'[b] = branches[b]
                     /\ InQueue(b)' = InQueue(b)
                     /\ b \notin Range(hist'.calls)
              /\ (hist'.op = "run" /\ hist'.arg = b /\ branches[b].stopped
                      /\ ~branches[b].disposed /\ ~branches[b].running) =>
                     /\ hist'.calls = <<b>>
                     /\ Top(connectors').id = b
                     /\ branches'[b].running /\ ~branches'[b].stopped
              /\ Settled(b)' =>
                     DOMAIN branches'[b].sub \cap Leaves = hist'.reads[b] \cap Leaves
              /\ (hist'.op = "write" /\ hist'.differs /\ Settled(b)
                      /\ hist'.arg \in hist.reads[b]) => InQueue(b)']_vars

\* write() has just queued a branch that was stopped, then run again by run(),
\* and read the written leaf in that run.
C9_Witness ==
    /\ hist.op = "write"
    /\ hist.differs
    /\ \E b \in hist.rerun :
           /\ Settled(b)
           /\ hist.arg \in hist.reads[b]
           /\ InQueue(b)
           /\ hist.asked[b] = 1

RECURSIVE Owned(_)
Owned(b) ==
    Range(branches[b].children)
        \cup UNION {Owned(c) : c \in Range(branches[b].children)}

\* C11: when a branch becomes disposed, every branch it owned (children,
\* grandchildren, ...) is disposed with it, and the finalizers that were
\* pending on it and on them are executed, once each; in every state the
\* finalizers registered on a branch are those executed once plus those still
\* pending, and none is pending on a disposed branch.
C11_DisposeReachesSubtree ==
    [][\A b \in BranchIDs :
           /\ hist'.finalizerRuns[b] + branches'[b].finalizers
                  = hist'.finalizersAdded[b]
           /\ branches'[b].disposed => branches'[b].finalizers = 0
           /\ (~branches[b].disposed /\ branches'[b].disposed) =>
                  \A c \in {b} \cup Owned(b) :
                      /\ branches'[c].disposed
                      /\ hist'.finalizerRuns[c]
                             = hist.finalizerRuns[c] + branches[c].finalizers]_vars

\* dispose() of branch 1 has disposed its grandchild 3 and executed the
\* finalizer registered on it.
C11_Witness ==
    /\ hist.op = "dispose"
    /\ hist.arg = 1
    /\ branches[2].parent = 1
    /\ branches[3].parent = 2
    /\ branches[3].disposed
    /\ hist.finalizersAdded[3] = 1
    /\ hist.finalizerRuns[3] = 1

\* stop() on a branch that stop() has just stopped, or dispose() has just
\* disposed, changes nothing (no teardown runs again; stopBranch has no path
\* that throws)
StopTwiceIsStopOnce(b) ==
    /\ \E T \in {StopBranch(State, b)} : StopBranch(T, b) = T
    /\ ~branches[b].disposed =>
           \E T \in {BranchDispose(State, b)} : StopBranch(T, b) = T

\* The step starts a run of b, or stops or disposes b
StartsOrStops(b) ==
    \/ b \in Range(hist'.calls)
    \/ hist'.op \in {"stop", "dispose"} /\ hist'.arg = b
    \/ ~branches[b].disposed /\ branches'[b].disposed

\* C12 (as amended): the teardowns registered on a branch are those executed
\* once plus those still pending; a step that starts a run of the branch, or
\* stops or disposes it, executes every pending teardown and leaves none
\* pending; a teardown is executed in no other step, except that one
\* registered while the branch is stopped is executed at once, at
\* registration; and a second stop() changes nothing.
C12_TeardownsRunOnce ==
    [][\A b \in BranchIDs :
           /\ hist'.teardownRuns[b] + branches'[b].teardowns
                  = hist'.teardownsAdded[b]
           /\ StartsOrStops(b) =>
                  /\ branches'[b].teardowns = 0
                  /\ hist'.teardownRuns[b]
                         = hist.teardownRuns[b] + branches[b].teardowns
           /\ hist'.teardownRuns[b] # hist.teardownRuns[b] =>
                  \/ StartsOrStops(b)
                  \/ /\ hist'.op = "teardown" /\ hist'.arg = b
                     /\ branches[b].stopped
                     /\ hist'.teardownRuns[b] = hist.teardownRuns[b] + 1
           /\ branches[b].exists => StopTwiceIsStopOnce(b)]_vars

\* teardown() on a stopped branch has just executed its teardown, after an
\* earlier teardown of the branch was executed by stop().
C12_Witness ==
    /\ hist.op = "teardown"
    /\ branches[hist.arg].stopped
    /\ ~branches[hist.arg].disposed
    /\ branches[hist.arg].teardowns = 0
    /\ hist.teardownsAdded[hist.arg] = 2
    /\ hist.teardownRuns[hist.arg] = 2

\* C12 as stated: a teardown is executed only in a step that starts a run of
\* its branch, or stops or disposes it, and a second stop() changes nothing.
C12_TeardownsRunAtRunStopDispose ==
    [][\A b \in BranchIDs :
           /\ hist'.teardownRuns[b] + branches'[b].teardowns
                  = hist'.teardownsAdded[b]
           /\ hist'.teardownRuns[b] # hist.teardownRuns[b] => StartsOrStops(b)
           /\ branches[b].exists => StopTwiceIsStopOnce(b)]_vars

\* C13: a finalizer is never executed while its branch is not disposed: a
\* branch that is not disposed has executed none, and stop() or a run of it
\* leaves its registered finalizers pending; the step in which the branch
\* becomes disposed executes all of them.
C13_FinalizersOnlyAtDispose ==
    [][\A b \in BranchIDs :
           /\ ~branches'[b].disposed =>
                  /\ hist'.finalizerRuns[b] = 0
                  /\ branches'[b].finalizers = hist'.finalizersAdded[b]
           /\ (hist'.finalizerRuns[b] # hist.finalizerRuns[b]) =>
                  branches'[b].disposed
           /\ (~branches[b].disposed /\ branches'[b].disposed) =>
                  /\ branches'[b].finalizers = 0
                  /\ hist'.finalizerRuns[b] = hist'.finalizersAdded[b]]_vars

\* dispose() has just executed the finalizer of a branch that was stopped and
\* run again with the finalizer registered, and has executed a teardown.
C13_Witness ==
    /\ hist.op = "dispose"
    /\ hist.arg \in hist.rerun
    /\ hist.finalizersAdded[hist.arg] = 1
    /\ hist.finalizerRuns[hist.arg] = 1
    /\ hist.teardownRuns[hist.arg] = 1

\* The leaves that the last run of branch b read while not frozen, itself or
\* through the twigs it read while not frozen
LeavesReadUnfrozen(b) ==
    (hist.reads[b] \cap Leaves)
        \cup UNION {LeavesOfTwig(u) : u \in hist.reads[b] \cap Twigs}

\* C14: a read by the handler of a frozen branch leaves the branch's
\* dependency list as it was, and once the run has ended the branch is
\* subscribed to no signal it read only while frozen; a write() to a leaf the
\* last run read only while frozen leaves the branch's place in the queue as
\* it was, and a write() that changes a leaf the run read while not frozen
\* (around a frozen read) puts the branch in the queue; and every step that
\* starts a run of a branch leaves it not frozen.
C14_FrozenReadsUntracked ==
    [][/\ (hist'.op \in {"readLeaf", "readTwig"}
              /\ branches[Top(connectors).id].frozen) =>
              branches'[Top(connectors).id].signals
                  = branches[Top(connectors).id].signals
       /\ \A b \in BranchIDs :
              /\ Settled(b)' =>
                     (DOMAIN branches'[b].sub)
                         \cap (hist'.frozenReads[b] \ hist'.reads[b]) = {}
              /\ (hist'.op = "write" /\ Settled(b)
                      /\ hist'.arg \in hist.frozenReads[b]
                      /\ hist'.arg \notin LeavesReadUnfrozen(b)) =>
                     /\ InQueue(b)' <=> InQueue(b)
                     /\ branches'[b] = branches[b]
              /\ (hist'.op = "write" /\ hist'.differs /\ Settled(b)
                      /\ hist.frozenReads[b] # {}
                      /\ hist'.arg \in hist.reads[b]) => InQueue(b)'
              /\ b \in Range(hist'.calls) => ~branches'[b].frozen]_vars

\* write() has just changed a leaf that a branch read only between freeze()
\* and unfreeze(), having read the other leaf outside them, and the branch
\* is not in the queue.
C14_Witness ==
    /\ hist.op = "write"
    /\ hist.differs
    /\ \E b \in BranchIDs :
           /\ Settled(b)
           /\ hist.arg \in hist.frozenReads[b] \ hist.reads[b]
           /\ hist.reads[b] \cap Leaves # {}
           /\ ~branches[b].frozen
           /\ ~InQueue(b)

\* C15: a read in a handler is recorded in the innermost tracker only.  A
\* leaf.read() or twig.read() by a branch handler adds at most the signal read
\* to that branch's dependency list and changes no other branch's list, and
\* a twig whose handler ran in the step lists only signals that handler read
\* itself; so a write() that changes a leaf read by a child branch, and not
\* by its parent, puts the child in the queue and leaves the parent's record
\* and place in the queue as they were.
C15_InnermostTrackerOnly ==
    [][/\ hist'.op \in {"readLeaf", "readTwig"} =>
              /\ SignalSet(branches'[Top(connectors).id].signals)
                     \subseteq SignalSet(branches[Top(connectors).id].signals)
                                   \cup {hist'.arg}
              /\ \A c \in BranchIDs \ {Top(connectors).id} :
                     branches'[c].signals = branches[c].signals
       /\ \A i \in 1..Len(hist'.twigCalls) :
              SignalSet(twigs'[hist'.twigCalls[i].twig].signals)
                  \subseteq hist'.twigReads[hist'.twigCalls[i].twig]
       /\ \A c \in BranchIDs :
              (/\ hist'.op = "write" /\ hist'.differs
               /\ branches[c].parent # None
               /\ Settled(c) /\ Settled(branches[c].parent)
               /\ hist'.arg \in hist.reads[c]
               /\ hist'.arg \notin LeavesOfBranch(branches[c].parent)) =>
                  /\ InQueue(c)'
                  /\ InQueue(branches[c].parent)' <=> InQueue(branches[c].parent)
                  /\ branches'[branches[c].parent] = branches[branches[c].parent]]_vars

\* write() has just changed a leaf read by a child branch and not by its
\* parent, which read the other leaf: the child is queued, the parent is not.
C15_Witness ==
    /\ hist.op = "write"
    /\ hist.differs
    /\ \E c \in BranchIDs :
           /\ branches[c].parent # None
           /\ Settled(c) /\ Settled(branches[c].parent)
           /\ hist.arg \in hist.reads[c]
           /\ hist.arg \notin LeavesOfBranch(branches[c].parent)
           /\ hist.reads[branches[c].parent] # {}
           /\ InQueue(c)
           /\ ~InQueue(branches[c].parent)

\* C16: when write(v) returns the leaf holds v and no subscription made by
\* observe() on the leaf is open (each one open before is closed by the
\* write, and _subscription and _subscriptionMany are undefined); a
\* subscription that is closed never opens again, and an emission of a source
\* whose subscription is closed changes neither the leaf nor any twig.
C16_WriteCancelsSources ==
    [][/\ hist'.op = "write" =>
              /\ leaves'[hist'.arg].value = hist'.value
              /\ leaves'[hist'.arg].open = {}
              /\ hist'.closed[hist'.arg] = leaves[hist'.arg].open
              /\ leaves'[hist'.arg].subscription = None
              /\ ~leaves'[hist'.arg].hasMany
       /\ \A l \in Leaves :
              leaves'[l].open \ leaves[l].open
                  \subseteq (leaves[l].attached + 1)..leaves'[l].attached
       /\ (hist'.op = "emit" /\ hist'.sub \notin leaves[hist'.arg].open) =>
              /\ leaves' = leaves
              /\ twigs' = twigs]_vars

\* write() has just changed the value of a leaf and closed two open
\* subscriptions that observe() had made on it.
C16_Witness ==
    /\ hist.op = "write"
    /\ hist.differs
    /\ Cardinality(hist.closed[hist.arg]) = 2
    /\ leaves[hist.arg].value = hist.value

\* C17: observe() closes no subscription, and an emission of any source
\* whose subscription is open gives the leaf the value emitted; unobserve()
\* leaves no subscription of the leaf open, and unobserve() on what
\* unobserve() left, or on a leaf observe() was never called on, changes
\* nothing.
C17_ObserveAddsUnobserveClearsAll ==
    [][/\ hist'.op = "observe" =>
              /\ leaves[hist'.arg].open \subseteq leaves'[hist'.arg].open
              /\ hist'.closed[hist'.arg] = {}
       /\ (hist'.op = "emit" /\ hist'.sub \in leaves[hist'.arg].open) =>
              leaves'[hist'.arg].value = hist'.value
       /\ hist'.op = "unobserve" =>
              /\ leaves'[hist'.arg].open = {}
              /\ hist'.closed[hist'.arg] = leaves[hist'.arg].open
              /\ leaves'[hist'.arg].value = leaves[hist'.arg].value
       /\ \A l \in Leaves :
              /\ \E T \in {Unobserve(State, l)} : Unobserve(T, l) = T
              /\ leaves[l].attached = 0 => Unobserve(State, l) = State]_vars

\* With two subscriptions open in the composite, the source that the first
\* observe() attached has just emitted and changed the leaf's value.
C17_Witness ==
    /\ hist.op = "emit"
    /\ hist.sub = 1
    /\ leaves[hist.arg].hasMany
    /\ leaves[hist.arg].open = {1, 2}
    /\ hist.value # 0
    /\ leaves[hist.arg].value = hist.value

\* Branch b is in _scheduledBranches (pending) or _runningBranches (inFlight)
Queued(b) == b \in Range(sched.scheduledBranches) \cup Range(sched.runningBranches)

\* C18: unschedule() takes a queued branch out of whichever queue holds it,
\* and flush() starts the handler only of a branch that was in the queue and
\* has not left it since it was last scheduled (hist.dequeued), so the
\* scheduling that unschedule() cancelled runs nothing; unschedule() on a
\* branch that is not queued changes nothing; and unschedule() changes no
\* branch but for the mark of the one it takes out, nor the stack of running
\* handlers.
C18_UnscheduleCancels ==
    [][/\ hist'.op = "unschedule" =>
              /\ hist'.arg \notin Range(sched'.scheduledBranches)
                                  \cup Range(sched'.runningBranches)
              /\ Queued(hist'.arg) => hist'.arg \in hist'.dequeued
              /\ ~Queued(hist'.arg) =>
                     /\ branches' = branches
                     /\ sched' = sched
              /\ connectors' = connectors
              /\ branches' = [branches EXCEPT ![hist'.arg].scheduledBy = FALSE]
       /\ \A b \in BranchIDs :
              (/\ hist'.op \in {"flush", "return"}
               /\ b \in Range(hist'.calls)) =>
                  /\ Queued(b)
                  /\ b \notin hist.dequeued]_vars

\* In a flush in which both branches were queued, the handler of branch 1
\* has just called unschedule() on branch 2, which waited in inFlight.
C18_Witness ==
    /\ hist.op = "unschedule"
    /\ hist.arg = 2
    /\ sched.draining
    /\ sched.runningBranch = 1
    /\ branches[1].running
    /\ hist.flushQueued = {1, 2}
    /\ 2 \in hist.dequeued
    /\ ~branches[2].stopped
    /\ ~branches[2].disposed
    /\ sched.runningBranches = <<>>

\* C19: twig.notify() makes every twig subscribed to the twig dirty, puts
\* every branch subscribed to it in the queue, and leaves the dirty flag of
\* the notifying twig as it was.
C19_NotifyReachesDependentsOnly ==
    [][hist'.op = "notify" =>
          /\ \A u \in Twigs :
                 hist'.arg \in DOMAIN twigs[u].sub => twigs'[u].dirty
          /\ \A b \in BranchIDs :
                 hist'.arg \in DOMAIN branches[b].sub => InQueue(b)'
          /\ twigs'[hist'.arg].dirty = twigs[hist'.arg].dirty]_vars

\* C20: every twig.read() in a running handler records the twig as a
\* dependency of the tracker the handler belongs to, whether the read
\* returns or throws: after read() in the handler of a branch that is
\* neither frozen nor stopped the branch's dependency list holds the twig,
\* not discarded, and a twig whose handler ran in the step lists every twig
\* that handler read.
C20_TwigReadRecorded ==
    [][/\ (/\ hist'.op = "readTwig"
           /\ ~branches[Top(connectors).id].frozen
           /\ ~branches[Top(connectors).id].stopped) =>
              \E i \in 1..Len(branches'[Top(connectors).id].signals) :
                  /\ branches'[Top(connectors).id].signals[i].sig = hist'.arg
                  /\ ~branches'[Top(connectors).id].signals[i].discarded
       /\ \A i \in 1..Len(hist'.twigCalls) :
              hist'.twigReads[hist'.twigCalls[i].twig] \cap Twigs
                  \subseteq SignalSet(twigs'[hist'.twigCalls[i].twig].signals)]_vars

\* C21: after a signal that a branch was subscribed to has ended (its source
\* has completed or errored), the branch's other dependencies still reach
\* it: a write() that changes a leaf read by the branch's last run, which
\* has ended, puts the branch in the queue.
C21_OthersStillNotify ==
    [][\A b \in BranchIDs :
           (/\ hist'.op = "write" /\ hist'.differs
            /\ Settled(b)
            /\ hist'.arg \in hist.reads[b]
            /\ b \in hist.lost) =>
               InQueue(b)']_vars

\* C22: when the handler of a branch throws, the run ends like any other:
\* the branch is not running, its frame is off the tracking stack, and,
\* unless it was stopped, it is subscribed to exactly the leaves the handler
\* read before it threw; the throw does not put the branch in the queue;
\* and a later write() that changes one of those leaves does.
C22_ThrowStillSubscribes ==
    [][\A b \in BranchIDs :
           /\ (hist'.op = "throw" /\ hist'.arg = b) =>
                  /\ ~branches'[b].running
                  /\ \A i \in 1..Len(connectors') : connectors'[i].id # b
                  /\ SubSeq(connectors', 1, Len(connectors) - 1) = Pop(connectors)
                  /\ ~branches'[b].stopped => DOMAIN branches'[b].sub = hist.reads[b]
                  /\ InQueue(b)' => InQueue(b)
           /\ (/\ hist'.op = "write" /\ hist'.differs
               /\ b \in hist.failed
               /\ Settled(b)
               /\ hist'.arg \in hist.reads[b]) => InQueue(b)']_vars

\* write() has just changed a leaf read by a branch whose handler a flush ran
\* and which threw after reading the leaf: the branch is in the queue again.
C22_Witness ==
    /\ hist.op = "write"
    /\ hist.differs
    /\ \E b \in hist.failed :
           /\ Settled(b)
           /\ b \in Range(hist.flushLog)
           /\ hist.arg \in hist.reads[b]
           /\ InQueue(b)

\* C23: run() on a branch whose handler is executing, wherever the call comes
\* from (that handler, the handler of a nested child), fails with an error and
\* changes nothing: the branch records (flags, dependency lists, children,
\* teardowns, finalizers, subscriptions), the tracking stack, the scheduler,
\* the leaves and the twigs stay as they were.
C23_RunWhileRunningFails ==
    [][(hist'.op = "run" /\ branches[hist'.arg].running) =>
           /\ hist'.raised
           /\ hist'.calls = <<>>
           /\ branches' = branches
           /\ connectors' = connectors
           /\ sched' = sched
           /\ leaves' = leaves
           /\ twigs' = twigs
           /\ hist'.teardownRuns = hist.teardownRuns
           /\ hist'.finalizerRuns = hist.finalizerRuns]_vars

\* run() has just failed on the outer branch, called from the handler of its
\* nested child, after the outer handler read a leaf and created the child
C23_Witness ==
    /\ hist.op = "run"
    /\ hist.raised
    /\ Len(connectors) >= 2
    /\ hist.arg = connectors[1].id
    /\ Top(connectors).id # hist.arg
    /\ branches[hist.arg].running
    /\ branches[hist.arg].children # <<>>
    /\ branches[hist.arg].signals # <<>>

\* The branches whose handlers the action now ending has made flush() run
FlushedNow == {hist'.flushLog[i] : i \in (Len(hist.flushLog) + 1)..Len(hist'.flushLog)}

\* schedule() has been called on branch b, not disposed, while flush() was
\* draining (_runningBranch is set)
ScheduledInFlush(b) ==
    /\ hist'.op = "schedule"
    /\ hist'.arg = b
    /\ sched.runningBranch # None
    /\ ~branches[b].disposed

C25_ThrowDoesNotAbortFlush ==
    [][/\ (hist'.op = "throw" /\ Top(connectors).how = "flush") =>
              IF sched.runningBranches = <<>>
              THEN /\ hist'.flushEnded
                   /\ hist'.calls = <<>>
                   /\ ~sched'.draining
              ELSE /\ hist'.calls = <<Top(sched.runningBranches)>>
                   /\ Top(sched.runningBranches) > Top(connectors).id
                   /\ sched'.runningBranch = Top(sched.runningBranches)
                   /\ sched'.runningBranches =
                          SelectSeq(Pop(sched.runningBranches),
                                    LAMBDA b : b \notin hist'.dequeued)
                   /\ sched'.draining
       /\ \A i \in 1..(Len(hist'.flushLog) - 1) :
              hist'.flushLog[i] < hist'.flushLog[i + 1]
       /\ \A b \in BranchIDs :
              (b \in Range(sched.runningBranches)
                 /\ b \notin Range(sched'.runningBranches)) =>
                    b \in Range(hist'.calls) \/ b \in hist'.dequeued
       /\ ~sched'.draining =>
              sched'.runningBranches = <<>> /\ sched'.runningBranch = None
       /\ \A b \in BranchIDs :
              (/\ hist'.op = "schedule" /\ hist'.arg = b
               /\ ~sched.draining
               /\ ~branches[b].disposed
               /\ ~branches[b].scheduledBy) =>
                    /\ b \in Range(sched'.scheduledBranches)
                    /\ sched'.runningBranches = <<>>
                    /\ sched'.scheduled
                    /\ sched'.callbacks > 0
                    /\ hist'.calls = <<>>]_vars

\* The handler of a branch run by flush() has just thrown, and flush() has
\* gone on to run the next branch, the second handler of this flush
C25_Witness ==
    /\ hist.op = "throw"
    /\ hist.arg \in hist.failed
    /\ sched.draining
    /\ Len(hist.flushLog) >= 2
    /\ hist.calls = <<hist.flushLog[Len(hist.flushLog)]>>
    /\ hist.flushLog[Len(hist.flushLog) - 1] = hist.arg

\* The array holds its branches in the order of their identities (the highest
\* first: flush() pops the lowest from the end), so each at most once
OrderedByIdentity(array) ==
    \A i \in 1..(Len(array) - 1) : array[i] > array[i + 1]

\* C26: in every state of the scheduler, whatever the interleaving of
\* schedule, unschedule, flush, run, stop and dispose inside and outside
\* handlers, pending and inFlight are each ordered by identity, each holds a
\* branch at most once, and no branch is in both.
C26_QueuesOrderedDisjoint ==
    /\ OrderedByIdentity(sched.scheduledBranches)
    /\ OrderedByIdentity(sched.runningBranches)
    /\ Cardinality(Range(sched.scheduledBranches)) = Len(sched.scheduledBranches)
    /\ Cardinality(Range(sched.runningBranches)) = Len(sched.runningBranches)
    /\ Range(sched.scheduledBranches) \cap Range(sched.runningBranches) = {}

\* During a flush, two branches wait in pending and another in inFlight
C26_Witness ==
    /\ sched.draining
    /\ Len(sched.scheduledBranches) >= 2
    /\ sched.runningBranches # <<>>

\* C27: a step that invokes the handler of an existing branch b (run() or
\* flush) has, when the handler begins, disposed every branch b owned
\* (children and their descendants), emptied b's list of children, and
\* executed every teardown pending on b, leaving none.  A disposed branch
\* stays disposed and its handler is never invoked again; a branch created
\* by the handler takes an identity that no branch had before.
C27_RunCleansUpFirst ==
    [][/\ \A b \in Range(hist'.calls) :
              branches[b].exists =>
                  /\ \A c \in Owned(b) : branches'[c].disposed
                  /\ branches'[b].children = <<>>
                  /\ branches'[b].teardowns = 0
                  /\ hist'.teardownRuns[b]
                         = hist.teardownRuns[b] + branches[b].teardowns
                  /\ branches'[b].running
                  /\ Top(connectors').id = b
       /\ \A c \in BranchIDs :
              branches[c].disposed =>
                  /\ branches'[c].disposed
                  /\ c \notin Range(hist'.calls)
       /\ (hist'.op = "new" /\ ~hist'.raised) =>
              /\ ~branches[hist'.arg].exists
              /\ \A c \in BranchIDs : branches[c].exists => c < hist'.arg]_vars

\* Branch 1, run again by a flush after its first run created branch 2 and
\* registered a teardown, has created branch 3 in the new run: branch 2 is
\* disposed, the teardown was executed, and branch 3 is the only child.
C27_Witness ==
    /\ hist.op = "new"
    /\ hist.arg = 3
    /\ branches[2].disposed
    /\ branches[1].children = <<3>>
    /\ branches[1].running
    /\ \E i \in 1..Len(connectors) : connectors[i].id = 1 /\ connectors[i].how = "flush"
    /\ hist.teardownsAdded[1] = 1
    /\ hist.teardownRuns[1] = 1

\* C28: when the handler of a branch returns and the branch was stopped or
\* disposed during the run (by itself, or with an ancestor stopped or disposed
\* from a nested handler), the branch is left with no dependency subscription
\* and an empty dependency list; a read made by its handler after the stop
\* leaves the list empty; and while it stays stopped, a write() that changes a
\* leaf its handler read, before the stop or after, does not put it in a queue.
C28_StoppedInHandlerUnsubscribed ==
    [][\A b \in BranchIDs :
           /\ (hist'.op = "return" /\ hist'.arg = b /\ branches[b].stopped) =>
                  /\ branches'[b].stopped
                  /\ ~branches'[b].running
                  /\ branches'[b].sub = NoSubscription
                  /\ branches'[b].signals = <<>>
           /\ (branches[b].stopped /\ hist'.op \in {"readLeaf", "readTwig"}) =>
                  branches'[b].signals = <<>>
           /\ (branches[b].stopped /\ hist'.op = "write") =>
                  /\ branches'[b].sub = NoSubscription
                  /\ branches'[b].signals = <<>>
                  /\ InQueue(b)' => InQueue(b)]_vars

\* The handler of a branch that a flush ran again has just returned, after
\* reading a leaf and stopping its own branch: the branch keeps no
\* subscription and no dependency
C28_Witness ==
    /\ hist.op = "return"
    /\ branches[hist.arg].stopped
    /\ ~branches[hist.arg].disposed
    /\ ~branches[hist.arg].running
    /\ hist.arg \in Range(hist.flushLog)
    /\ hist.reads[hist.arg] \cap Leaves # {}
    /\ branches[hist.arg].sub = NoSubscription
    /\ branches[hist.arg].signals = <<>>

\* The subscription that subscribe() returns for the set of signals: it has
\* passed no value on yet
FreshSubscription(set) == [s \in set |-> NoKey]

TwigRuns(t) == Cardinality({i \in 1..Len(hist.twigCalls) : hist.twigCalls[i].twig = t})

\* C30: with twigs whose handlers read their own twig and each other, a
\* value or read() of a twig comes to an end having invoked the handler of
\* each twig at most once (the read made while the handler was executing
\* invoked nothing), with no twig left running, the tracking stack holding
\* branch frames only, and the twig that was asked for clean.
C30_ReentrantReadReturns ==
    /\ \A t \in Twigs : TwigRuns(t) <= 1 /\ ~twigs[t].running
    /\ \A i \in 1..Len(connectors) : connectors[i].kind = "branch"
    /\ hist.op \in {"value", "readTwig"} => ~hist.raised /\ ~twigs[hist.arg].dirty

\* value of twig 3 has run the handler of twig 3, which read twig 4, whose
\* handler read twig 4 itself and twig 3 while both handlers were executing:
\* both reads were registered as dependencies of twig 4
C30_Witness ==
    /\ hist.op = "value"
    /\ hist.arg = 3
    /\ Len(hist.twigCalls) = 2
    /\ hist.twigCalls[1].twig = 3
    /\ hist.twigCalls[2].twig = 4
    /\ SignalSet(twigs[4].signals) = {3, 4}
    /\ SignalSet(twigs[3].signals) = {1, 4}
    /\ ~twigs[3].dirty
    /\ ~twigs[4].dirty

\* C31: a step that stops, disposes or starts a new run of branch b, with
\* teardowns or finalizers that throw among those pending in its tree,
\* executes every teardown pending on b, and leaves every branch b owned
\* (children and their descendants) disposed, out of the scheduler's queues,
\* with every teardown and finalizer that was pending on it executed; if b
\* is disposed by the step, its finalizers too.
C31_ThrowingTeardownSkipsNone ==
    [][\A b \in BranchIDs :
           StartsOrStops(b) =>
               /\ branches'[b].teardowns = 0
               /\ hist'.teardownRuns[b] = hist.teardownRuns[b] + branches[b].teardowns
               /\ branches'[b].disposed =>
                      /\ branches'[b].finalizers = 0
                      /\ hist'.finalizerRuns[b]
                             = hist.finalizerRuns[b] + branches[b].finalizers
               /\ \A c \in Owned(b) :
                      /\ branches'[c].disposed
                      /\ ~branches'[c].scheduledBy
                      /\ c \notin Range(sched'.scheduledBranches)
                                      \cup Range(sched'.runningBranches)
                      /\ branches'[c].teardowns = 0
                      /\ branches'[c].finalizers = 0
                      /\ hist'.teardownRuns[c]
                             = hist.teardownRuns[c] + branches[c].teardowns
                      /\ hist'.finalizerRuns[c]
                             = hist.finalizerRuns[c] + branches[c].finalizers]_vars

\* stop() of branch 1 has disposed its children 2 and 3: a teardown of 2
\* threw, and the teardown of 3, next in the list, was executed all the same
C31_Witness ==
    /\ hist.op = "stop"
    /\ hist.arg = 1
    /\ 2 \in hist.throwers
    /\ 3 \notin hist.throwers
    /\ branches[2].parent = 1
    /\ branches[3].parent = 1
    /\ branches[2].disposed
    /\ branches[3].disposed
    /\ hist.teardownsAdded[2] = 1
    /\ hist.teardownRuns[2] = 1
    /\ hist.teardownsAdded[3] = 1
    /\ hist.teardownRuns[3] = 1
    /\ hist.teardownRuns[1] = 0

\* The identities of the branches whose frames are on the stack, bottom first
BranchFrames(stack) ==
    SelectSeq([i \in 1..Len(stack) |-> IF stack[i].kind = "branch" THEN stack[i].id ELSE None],
              LAMBDA x : x # None)

\* The trackers on the stack, bottom first, without what they have collected
Trackers(stack) == [i \in 1..Len(stack) |-> <<stack[i].kind, stack[i].id>>]

\* C32: a twig evaluation, which begins and ends inside one step, leaves the
\* tracking stack as it was, whether a twig handler throws or not; a step
\* that invokes a branch handler or begins collectSignals pushes its one
\* frame on the stack as it was (a flush first pops the frame of the handler
\* that ended); a step in which a handler or collectSignals ends, by return
\* or by throw, pops that frame and nothing else; every other step leaves
\* the stack alone.  The branch frames on the stack are those of the running
\* branches, once each, so the stack is empty when no handler and no
\* collectSignals is executing, and no twig frame outlives its evaluation.
C32_StackRestored ==
    [][/\ \A i \in 1..Len(connectors') : connectors'[i].kind \in {"branch", "collector"}
       /\ Range(BranchFrames(connectors')) = {b \in BranchIDs : branches'[b].running}
       /\ Cardinality(Range(BranchFrames(connectors'))) = Len(BranchFrames(connectors'))
       /\ hist'.op \in {"value", "schedule"} => connectors' = connectors
       /\ hist'.op \in {"readTwig", "readLeaf"} =>
              Trackers(connectors') = Trackers(connectors)
       /\ hist'.op \in {"new", "run"} =>
              IF hist'.raised THEN connectors' = connectors
              ELSE IF hist'.calls = <<>> THEN connectors' = connectors
              ELSE /\ Pop(connectors') = connectors
                   /\ Top(connectors').kind = "branch"
                   /\ hist'.calls = <<Top(connectors').id>>
       /\ hist'.op = "collect" =>
              Pop(connectors') = connectors /\ Top(connectors') = CollectorFrame
       /\ hist'.op = "collectEnd" => connectors' = Pop(connectors)
       /\ hist'.op \in {"return", "throw", "flush"} =>
              LET base == IF hist'.op = "flush" THEN connectors ELSE Pop(connectors)
              IN IF hist'.calls = <<>> THEN connectors' = base
                 ELSE /\ Pop(connectors') = base
                      /\ base = <<>>
                      /\ Top(connectors').kind = "branch"
                      /\ hist'.calls = <<Top(connectors').id>>]_vars

\* The handler of a branch that run() started inside collectSignals, inside
\* the handler of another branch, has just thrown: the stack is again the
\* frame of the outer branch and the collector above it, which has collected
\* a signal
C32_Witness ==
    /\ hist.op = "throw"
    /\ Len(connectors) = 2
    /\ connectors[1].kind = "branch"
    /\ connectors[1].id # hist.arg
    /\ connectors[2].kind = "collector"
    /\ connectors[2].signals # <<>>

\* The identities of the branches created so far
BranchIdentities == {b \in BranchIDs : b < nextBranchID}

\* C33 (as amended): the identities of the signals (leaves, twigs, created
\* signals) are strictly increasing in the order of creation, so no two
\* signals have the same; the same holds of the branches, whose identities
\* come from a counter of their own: every branch created so far has its
\* identity below the counter and a new branch takes an identity above all.
C33_IdentitiesPerGenerator ==
    /\ \A i, j \in 1..Len(hist.signals) :
           i < j => hist.signals[i].identity < hist.signals[j].identity
    /\ \A i \in 1..Len(hist.signals) : hist.signals[i].identity < nextSignalID
    /\ \A b \in BranchIDs : branches[b].exists => b \in BranchIdentities
    /\ (hist.op = "new" /\ ~hist.raised) =>
           \A b \in BranchIdentities : b <= hist.arg

\* A twig, a leaf and a created signal exist, created in that order, and
\* two branches, the second just created
C33_Witness ==
    /\ Len(hist.signals) = 3
    /\ hist.signals[1].kind = "twig"
    /\ hist.signals[2].kind = "leaf"
    /\ hist.signals[3].kind = "signal"
    /\ hist.op = "new"
    /\ hist.arg = 2
    /\ branches[1].exists
    /\ branches[2].exists

\* C33 as stated: no signal and no branch have the same identity either.
C33_IdentitiesUniqueAcrossKinds ==
    /\ \A i, j \in 1..Len(hist.signals) :
           i < j => hist.signals[i].identity < hist.signals[j].identity
    /\ \A i \in 1..Len(hist.signals) :
           hist.signals[i].identity \notin BranchIdentities

\* How many invocations of the handler of branch b are executing
Executing(b) ==
    Cardinality({i \in 1..Len(connectors) :
                     connectors[i].kind = "branch" /\ connectors[i].id = b})

\* C34: the handler of a branch is never invoked while an earlier invocation
\* of it is still executing: no branch has two frames on the tracking stack.
C34_NoReentrantHandler == \A b \in BranchIDs : Executing(b) <= 1

\* The twigs in the dependency list of twig t
TwigDependencies(t) == SignalSet(twigs[t].signals) \cap Twigs

\* The twigs that twig t depends on through at most n dependency lists
RECURSIVE DependsWithin(_, _)
DependsWithin(t, n) ==
    IF n = 0 THEN {}
    ELSE LET near == DependsWithin(t, n - 1)
         IN TwigDependencies(t) \cup near \cup UNION {TwigDependencies(u) : u \in near}

\* C35: the dependency graph of the twigs is acyclic: no twig is in its own
\* dependency list, directly or through other twigs.
C35_TwigGraphAcyclic == \A t \in Twigs : t \notin DependsWithin(t, Cardinality(Twigs))

\* The branches whose handler flush() invokes in this step
StartedByFlush ==
    IF hist'.op = "flush" THEN Range(hist'.flushLog) ELSE FlushedNow

C37_FlushRequested ==
    /\ [](/\ sched.callbacks <= 1
          /\ sched.scheduled <=> sched.callbacks = 1
          /\ sched.scheduledBranches # <<>> => sched.scheduled)
    /\ \A b \in BranchIDs :
           Queued(b) ~> (b \in Range(hist.calls) \/ b \in hist.dequeued)

\* A flush has ended in which a handler scheduled a branch that had to go to
\* pending: one request for the next flush is outstanding
C37_Witness ==
    /\ hist.flushEnded
    /\ hist.flushLog # <<>>
    /\ sched.scheduledBranches # <<>>
    /\ sched.scheduled
    /\ sched.callbacks = 1

\* Branch b holds nothing: no subscription, no dependency, no child, no
\* teardown waiting
Bare(b) ==
    /\ branches[b].sub = NoSubscription
    /\ branches[b].signals = <<>>
    /\ branches[b].children = <<>>
    /\ branches[b].teardowns = 0

\* C38: a branch whose stopped flag is set holds no subscription, no
\* dependency, no child and no pending teardown, whatever is called on it or
\* inside its handler; only a step that invokes its handler anew clears the
\* flag.
C38_StoppedIsBare ==
    [][\A b \in BranchIDs :
           /\ branches'[b].stopped => Bare(b)'
           /\ (branches[b].stopped /\ ~branches'[b].stopped) =>
                  b \in Range(hist'.calls)]_vars

\* Branch 1 was stopped inside its handler, which is still executing: its two
\* teardowns have been executed, none waits, and it has just read a leaf
C38_Witness ==
    /\ branches[1].stopped
    /\ branches[1].running
    /\ Top(connectors).id = 1
    /\ hist.op = "readLeaf"
    /\ hist.teardownRuns[1] = 2
    /\ hist.reads[1] # {}

\* The array of SignalItem is strictly increasing by signal identity
StrictlyIncreasing(signals) ==
    \A i \in 1..(Len(signals) - 1) : signals[i].sig < signals[i + 1].sig

\* C39: the dependency list of every twig and every branch is strictly
\* increasing by signal identity (so it holds no signal twice), while handlers
\* execute and between them.
C39_DependenciesSorted ==
    /\ \A t \in Twigs : StrictlyIncreasing(twigs[t].signals)
    /\ \A b \in BranchIDs : StrictlyIncreasing(branches[b].signals)

\* A branch in its first run has just read leaf 1 after it had read a leaf of
\* higher identity and a twig: its list holds the three in order of identity
C39_Witness ==
    /\ hist.op = "readLeaf"
    /\ hist.arg = 1
    /\ connectors # <<>>
    /\ Top(connectors).kind = "branch"
    /\ \E b \in BranchIDs :
           /\ Top(connectors).id = b
           /\ branches[b].sub = NoSubscription
           /\ Len(branches[b].signals) = 3
           /\ SignalSet(branches[b].signals) \cap Twigs # {}
           /\ \A i \in 1..3 : ~branches[b].signals[i].discarded

\* C40: a branch is recorded as scheduled (_scheduledBy) exactly when it is
\* in pending or inFlight; schedule() on a branch that is not disposed changes
\* nothing of the scheduler and the branches when the branch is queued, and
\* queues it when it is not.
C40_ScheduledByIffQueued ==
    [][\A b \in BranchIDs :
           /\ branches'[b].scheduledBy <=> Queued(b)'
           /\ (hist'.op = "schedule" /\ hist'.arg = b /\ ~branches[b].disposed) =>
                  IF Queued(b)
                  THEN sched' = sched /\ branches' = branches
                  ELSE Queued(b)' /\ sched' # sched]_vars

\* While a flush drains, schedule() has just been called a second time on a
\* branch that waits in inFlight
C40_Witness ==
    /\ sched.draining
    /\ hist.op = "schedule"
    /\ hist.arg \in Range(sched.runningBranches)
    /\ hist.asked[hist.arg] = 2
    /\ branches[hist.arg].scheduledBy

============================================================================
